---- MODULE Spec2Model ----
(***************************************************************************)
(* broadcast-event: firing CustomEvents across a tree of windows (a page   *)
(* and its nested iframes) by relaying them with postMessage.              *)
(*                                                                         *)
(* Modelled from src/src/broadcast-event.js, lines 8-273 (the current      *)
(* variant: originId / recentEvents / encrypt).  One context = one window  *)
(* that loaded the script.  JavaScript strings are sequences of UTF-16     *)
(* code units (naturals); a 32-bit unsigned integer is a pair <<hi, lo>>   *)
(* of 16-bit halves, since the hash needs the full width 2^32.             *)
(***************************************************************************)
EXTENDS Integers, Sequences, FiniteSets, TLC

(***************************************************************************)
(* Bounds of the model.                                                    *)
(***************************************************************************)
\* number of windows in the tree (window 1 is the top window)
NumCtx == 3
\* number of windows of the two-window page (a page and one iframe)
PairCtx == 2
\* a time on the clock (Date.now), in ms after the page was loaded, that is
\* later than the expiry of an event id stored when the page was loaded
LateMs == 30001

(***************************************************************************)
(* Strings.                                                                *)
(***************************************************************************)
\* the value `undefined` of an absent property or argument; like '' it is
\* falsy, and no string of the model is empty
Undefined == << >>

Truthy(v) == v # Undefined

\* a || b on string-or-undefined values
OrElse(a, b) == IF Truthy(a) THEN a ELSE b

Colon == 58

\* String.prototype.indexOf(':') === -1
RECURSIVE HasColonFrom(_, _)
HasColonFrom(s, i) ==
    IF i > Len(s) THEN FALSE
    ELSE IF s[i] = Colon THEN TRUE
    ELSE HasColonFrom(s, i + 1)

HasColon(s) == HasColonFrom(s, 1)

(***************************************************************************)
(* 32-bit arithmetic on <<hi, lo>> halves and stringHash.                  *)
(***************************************************************************)
Half == 65536

\* a ^ b on naturals below 2^16
RECURSIVE Xor(_, _)
Xor(a, b) ==
    IF a = 0 THEN b
    ELSE IF b = 0 THEN a
    ELSE (((a % 2) + (b % 2)) % 2) + 2 * Xor(a \div 2, b \div 2)

\* 2^k for k < 16
Pow2(k) == << 1, 2, 4, 8, 16, 32, 64, 128, 256, 512, 1024, 2048, 4096, 8192,
              16384, 32768 >>[k + 1]

\* (h << k) >>> 0 for a 32-bit h
Shl32(h, k) ==
    IF k >= 16
    THEN << (h[2] * Pow2(k - 16)) % Half, 0 >>
    ELSE LET lo == h[2] * Pow2(k)
         IN  << (h[1] * Pow2(k) + (lo \div Half)) % Half, lo % Half >>

\* hash ^= code
Xor32(h, code) == << Xor(h[1], code \div Half), Xor(h[2], code % Half) >>

\* var hash = 2166136261 (0x811C9DC5, the FNV-1a offset basis)
OffsetBasis == << 33052, 40389 >>

\* a variant without (hash << 24)
Mix_Short(h) ==
    CHOOSE sum \in
        { << (h[1] + a[1] + b[1] + c[1] + d[1]
                + ((h[2] + a[2] + b[2] + c[2] + d[2]) \div Half)) % Half,
             (h[2] + a[2] + b[2] + c[2] + d[2]) % Half >> :
          a \in {Shl32(h, 1)}, b \in {Shl32(h, 4)}, c \in {Shl32(h, 7)},
          d \in {Shl32(h, 8)} } : TRUE

\* hash += (hash << 1) + (hash << 4) + (hash << 7) + (hash << 8) + (hash << 24)
\* every << works on ToInt32(hash) and the next ^= or the final >>> 0 reduces
\* the sum modulo 2^32, so the step is the sum modulo 2^32
Mix(h) ==
    CHOOSE sum \in
        { << (h[1] + a[1] + b[1] + c[1] + d[1] + e[1]
                + ((h[2] + a[2] + b[2] + c[2] + d[2] + e[2]) \div Half)) % Half,
             (h[2] + a[2] + b[2] + c[2] + d[2] + e[2]) % Half >> :
          a \in {Shl32(h, 1)}, b \in {Shl32(h, 4)}, c \in {Shl32(h, 7)},
          d \in {Shl32(h, 8)}, e \in {Shl32(h, 24)} } : TRUE

\* for (i = 0; i < input.length; i++): the loop from character i on, each
\* step computed once from the value x of hash ^= input.charCodeAt(i)
RECURSIVE HashFrom(_, _, _)
HashFrom(input, i, h) ==
    IF i > Len(input) THEN h
    ELSE CHOOSE out \in { HashFrom(input, i + 1, g) :
                            g \in { Mix(x) : x \in { Xor32(h, input[i]) } } } : TRUE

\* digit d of Number.prototype.toString(36): 0-9 then a-z
Digit36(d) == IF d < 10 THEN 48 + d ELSE 87 + d

\* n.toString(36) of a 32-bit n, by long division on the halves
RECURSIVE ToString36(_)
ToString36(n) ==
    LET mid == (n[1] % 36) * Half + n[2]
        r   == mid % 36
    IN  CHOOSE out \in { IF q = << 0, 0 >> THEN << Digit36(r) >>
                         ELSE Append(ToString36(q), Digit36(r)) :
                         q \in { << n[1] \div 36, mid \div 36 >> } } : TRUE

\* stringHash(input): Math.abs(hash >>> 0).toString(36)
stringHash(input) ==
    CHOOSE out \in { ToString36(hash) : hash \in { HashFrom(input, 1, OffsetBasis) } } : TRUE

\* String(n) of a natural number n, in decimal
RECURSIVE DecStr(_)
DecStr(n) ==
    IF n < 10 THEN << 48 + n >>
    ELSE Append(DecStr(n \div 10), 48 + (n % 10))

(***************************************************************************)
(* JavaScript values that reach broadcastEvent.                            *)
(*   undefined, null, a number, a string, or an event data object with the *)
(*   properties _originId, _targetId (Undefined when absent) and one user  *)
(*   property v.                                                           *)
(***************************************************************************)
JsUndefined == [t |-> "undefined"]

JsNull == [t |-> "null"]

JsNumber(n) == [t |-> "number", n |-> n]

JsString(s) == [t |-> "string", s |-> s]

JsObject(o, g, v) == [t |-> "object", _originId |-> o, _targetId |-> g, v |-> v]

\* the object literal {} (no property set)
EmptyObject == JsObject(Undefined, Undefined, Undefined)

\* ToBoolean(x)
JsTruthy(x) ==
    CASE x.t = "undefined" -> FALSE
      [] x.t = "null"      -> FALSE
      [] x.t = "number"    -> x.n # 0
      [] x.t = "string"    -> x.s # << >>
      [] OTHER             -> TRUE

\* typeof x === 'object'
TypeofObject(x) == x.t \in {"object", "null"}

(***************************************************************************)
(* The windows.                                                            *)
(***************************************************************************)
Windows(n) == 1 .. n

\* window.parent === window for the top window
NoParent == 0

\* window.location.href of each window: "h1", "h2", ...
sender(c) == << 104, 48 + c >>

\* the trees of n windows, window 1 on top and every other window embedded
\* by an earlier one
Trees(n) == { p \in [Windows(n) -> {NoParent} \cup Windows(n)] :
                /\ p[1] = NoParent
                /\ \A c \in Windows(n) \ {1} : p[c] \in 1 .. (c - 1) }

VARIABLES
    parent,        \* parent[c]: the window embedding c (window.parent), or NoParent
    originId,      \* originId[c]: var originId of window c
    recentEvents,  \* recentEvents[c]: var recentEvents, event id -> Date.now() when stored
    now,           \* the clock: Date.now() and performance.now()
    rnd,           \* rnd[c]: number of Math.random() draws made in window c
    net,           \* postMessage messages posted and not yet delivered
    held,          \* held[c]: an event data object a script of window c keeps and reuses
    calls,         \* number of broadcastEvent calls made by page scripts
    last,          \* the last call made by a page script and how it ended
    fired,         \* fired[c]: the CustomEvents dispatched on window c, in order
    posted,        \* every message ever handed to postMessage
    log,           \* log[c]: the console lines of window c, in order
    minted,        \* minted[c]: every event id window c ever stored, with
                   \* the time it stored it
    lateEcho,      \* the windows that received a payload carrying an event
                   \* id they stored more than 30 seconds earlier
    blocked,       \* the windows whose postMessage throws
    errors,        \* errors[c]: the errors thrown out of the message
                   \* listener of window c, in order
    text,          \* a string handed to stringHash
    hashed         \* what the calls stringHash(text) returned, in order

vars == << parent, originId, recentEvents, now, rnd, net, held, calls, last,
           fired, posted, log, minted, lateEcho, blocked, errors, text, hashed >>

\* the windows of the tree
Ctx == DOMAIN parent

\* window.frames of c
frames(c) == { d \in Ctx : parent[d] = c }

\* Math.random() of a window never returns the same value twice: its draw
\* number k is k
Random(k) == DecStr(k)

\* a variant that leaves the sender out
OriginInput_NoSender(c, t, r) == DecStr(t) \o << Colon >> \o Random(r)

\* sender + ':' + Date.now() + ':' + Math.random() * 1e18
OriginInput(c, t, r) == sender(c) \o << Colon >> \o DecStr(t) \o << Colon >> \o Random(r)

\* a variant without the random number
EventIdInput_NoRandom(c, type, t, r) ==
    sender(c) \o << Colon >> \o type \o << Colon >> \o DecStr(t)

\* sender + ':' + payload.type + ':' + performance.now() + ':' + Math.random()
EventIdInput(c, type, t, r) ==
    sender(c) \o << Colon >> \o type \o << Colon >> \o DecStr(t) \o << Colon >> \o Random(r)

\* remove anything older than 30 seconds
ExpiryMs == 30000

\* stringHash(sender + ':' + payload.type + ':' + performance.now() + ':' +
\* Math.random())
EventId(c, type, t, r) == stringHash(EventIdInput(c, type, t, r))

\* a variant that removes every event id
Purge_Everything(recent, t) == << >>

\* a variant that removes what is 30 seconds old or older
Purge_AtExpiry(recent, t) ==
    [ id \in { k \in DOMAIN recent : ~ (recent[k] <= t - ExpiryMs) } |-> recent[id] ]

\* remove anything older than 30 seconds: recentEvents[key] < now - 30000
Purge(recent, t) ==
    [ id \in { k \in DOMAIN recent : ~ (recent[k] < t - ExpiryMs) } |-> recent[id] ]

\* a variant that stores the event ids received as well
Record_Carried(kept, eventIds, eventId, t) ==
    [suppress |-> FALSE,
     recent   |-> [ id \in DOMAIN kept \cup {eventId} \cup { eventIds[i] : i \in DOMAIN eventIds } |->
                      IF id \in DOMAIN kept /\ id # eventId THEN kept[id] ELSE t ],
     eventIds |-> Append(eventIds, eventId),
     draws    |-> 1]

\* a variant that sends the new event id alone
Record_Reset(kept, eventIds, eventId, t) ==
    [suppress |-> FALSE,
     recent   |-> [ id \in DOMAIN kept \cup {eventId} |->
                      IF id = eventId THEN t ELSE kept[id] ],
     eventIds |-> << eventId >>,
     draws    |-> 1]

\* a variant that puts the new event id in front
Record_Unshift(kept, eventIds, eventId, t) ==
    [suppress |-> FALSE,
     recent   |-> [ id \in DOMAIN kept \cup {eventId} |->
                      IF id = eventId THEN t ELSE kept[id] ],
     eventIds |-> << eventId >> \o eventIds,
     draws    |-> 1]

\* payload.eventIds.push(eventId); recentEvents[eventId] = now
Record(kept, eventIds, eventId, t) ==
    [suppress |-> FALSE,
     recent   |-> [ id \in DOMAIN kept \cup {eventId} |->
                      IF id = eventId THEN t ELSE kept[id] ],
     eventIds |-> Append(eventIds, eventId),
     draws    |-> 1]

\* a variant that looks only at the first event id of the payload
alreadyBroadcast_FirstOnly(c, recent, type, eventIds, t, r) ==
    LET kept     == Purge(recent, t)
        suppress == eventIds # << >> /\ eventIds[1] \in DOMAIN kept
    IN  IF suppress
        THEN [suppress |-> TRUE, recent |-> kept, eventIds |-> eventIds, draws |-> 0]
        ELSE CHOOSE seen \in { Record(kept, eventIds, eventId, t) :
                                 eventId \in { EventId(c, type, t, r) } } : TRUE

\* a variant that looks only at the last event id of the payload
alreadyBroadcast_LastOnly(c, recent, type, eventIds, t, r) ==
    LET kept     == Purge(recent, t)
        suppress == eventIds # << >> /\ eventIds[Len(eventIds)] \in DOMAIN kept
    IN  IF suppress
        THEN [suppress |-> TRUE, recent |-> kept, eventIds |-> eventIds, draws |-> 0]
        ELSE CHOOSE seen \in { Record(kept, eventIds, eventId, t) :
                                 eventId \in { EventId(c, type, t, r) } } : TRUE

\* a variant that suppresses as long as the store holds any event id
alreadyBroadcast_Jammed(c, recent, type, eventIds, t, r) ==
    LET kept == Purge(recent, t)
    IN  IF DOMAIN kept # {}
        THEN [suppress |-> TRUE, recent |-> kept, eventIds |-> eventIds, draws |-> 0]
        ELSE CHOOSE seen \in { Record(kept, eventIds, eventId, t) :
                                 eventId \in { EventId(c, type, t, r) } } : TRUE

\* recentEvents is an object literal: besides the event ids stored in it, a
\* property read finds the members of Object.prototype, of which these are
\* 'constructor', 'toString', 'valueOf' and '__proto__'
ObjectPrototype ==
    { << 99, 111, 110, 115, 116, 114, 117, 99, 116, 111, 114 >>,
      << 116, 111, 83, 116, 114, 105, 110, 103 >>,
      << 118, 97, 108, 117, 101, 79, 102 >>,
      << 95, 95, 112, 114, 111, 116, 111, 95, 95 >> }

\* recentEvents[id] !== undefined
Has(recent, id) == id \in DOMAIN recent \/ id \in ObjectPrototype

\* alreadyBroadcast(payload) in window c: the purged store, then either
\* suppress, or a new event id pushed on payload.eventIds and stored
alreadyBroadcast(c, recent, type, eventIds, t, r) ==
    LET kept     == Purge(recent, t)
        suppress == \E i \in 1 .. Len(eventIds) : Has(kept, eventIds[i])
    IN  IF suppress
        THEN [suppress |-> TRUE, recent |-> kept, eventIds |-> eventIds, draws |-> 0]
        ELSE CHOOSE seen \in { Record(kept, eventIds, eventId, t) :
                                 eventId \in { EventId(c, type, t, r) } } : TRUE

\* a variant that posts every payload to the target window and back to
\* the window itself
sendEvent_Twice(c, targetWindow, payload) ==
    { [src |-> c, dst |-> w, _broadcast |-> payload] : w \in {c, targetWindow} }

\* sendEvent(targetWindow, payload) from window c: nothing is sent to the
\* window itself, and an error thrown by postMessage is caught and ignored
sendEvent(c, targetWindow, payload) ==
    IF targetWindow = c THEN {}
    ELSE IF targetWindow \in blocked THEN {}
    ELSE { [src |-> c, dst |-> targetWindow, _broadcast |-> payload] }

(***************************************************************************)
(* The payload cipher: JSON text, XOR with the key and the position, and   *)
(* base64.  A function that can throw returns [ok, val].                    *)
(***************************************************************************)
Quote == 34

\* "_originId", "_targetId", "v" and "BE:" as code units
KeyOriginId == << 95, 111, 114, 105, 103, 105, 110, 73, 100 >>

KeyTargetId == << 95, 116, 97, 114, 103, 101, 116, 73, 100 >>

KeyV == << 118 >>

PrefixBE == << 66, 69, 58 >>

\* one "key":"value" member of the JSON text; a property whose value is
\* undefined is left out by JSON.stringify
Member(key, val) ==
    IF val = Undefined THEN << >>
    ELSE << << Quote >> \o key \o << Quote, Colon, Quote >> \o val \o << Quote >> >>

RECURSIVE JoinWith(_, _)
JoinWith(parts, sep) ==
    IF parts = << >> THEN << >>
    ELSE IF Len(parts) = 1 THEN parts[1]
    ELSE parts[1] \o << sep >> \o JoinWith(Tail(parts), sep)

\* JSON.stringify(eventData): the properties in the order they were set
\* (v by the page script, then _originId, then _targetId)
JSONstringify(o) ==
    << 123 >> \o JoinWith(Member(KeyV, o.v) \o Member(KeyOriginId, o._originId)
                          \o Member(KeyTargetId, o._targetId), 44) \o << 125 >>

\* the index of the first code unit ch of s at or after i, 0 if none
RECURSIVE IndexFrom(_, _, _)
IndexFrom(s, ch, i) ==
    IF i > Len(s) THEN 0
    ELSE IF s[i] = ch THEN i
    ELSE IndexFrom(s, ch, i + 1)

\* the members of a JSON object text whose values are strings, read from
\* position i (just after '{' or ','): a sequence of <<key, value>>, or
\* <<"error">> when the text is not of that form
RECURSIVE ParseMembers(_, _)
ParseMembers(s, i) ==
    LET k1 == IF i <= Len(s) /\ s[i] = Quote THEN IndexFrom(s, Quote, i + 1) ELSE 0
        v0 == k1 + 3
        v1 == IF k1 > 0 /\ v0 <= Len(s) /\ s[k1 + 1] = Colon /\ s[k1 + 2] = Quote
              THEN IndexFrom(s, Quote, v0) ELSE 0
        key == SubSeq(s, i + 1, k1 - 1)
        val == SubSeq(s, v0, v1 - 1)
    IN  IF v1 = 0 \/ v1 = Len(s) THEN << "error" >>
        ELSE IF s[v1 + 1] = 125
             THEN IF v1 + 1 = Len(s) THEN << << key, val >> >> ELSE << "error" >>
        ELSE IF s[v1 + 1] = 44
             THEN LET rest == ParseMembers(s, v1 + 2)
                  IN  IF rest = << "error" >> THEN rest ELSE << << key, val >> >> \o rest
        ELSE << "error" >>

\* the value of property key among the parsed members, Undefined if absent
\* (a repeated key keeps its last value)
RECURSIVE Lookup(_, _)
Lookup(members, key) ==
    IF members = << >> THEN Undefined
    ELSE LET later == Lookup(Tail(members), key)
         IN  IF later # Undefined THEN later
             ELSE IF members[1][1] = key THEN members[1][2]
             ELSE Undefined

\* JSON.parse(text) for the texts JSON.stringify produces of event data: an
\* object of string properties; any other text is taken to throw SyntaxError
JSONparse(s) ==
    IF s = << 123, 125 >> THEN [ok |-> TRUE, val |-> EmptyObject]
    ELSE IF Len(s) < 2 \/ s[1] # 123 THEN [ok |-> FALSE, val |-> JsNull]
    ELSE LET members == ParseMembers(s, 2)
         IN  IF members = << "error" >> THEN [ok |-> FALSE, val |-> JsNull]
             ELSE [ok  |-> TRUE,
                   val |-> JsObject(Lookup(members, KeyOriginId),
                                    Lookup(members, KeyTargetId),
                                    Lookup(members, KeyV))]

\* the base64 alphabet: A-Z a-z 0-9 + /
B64Char(n) ==
    IF n < 26 THEN 65 + n
    ELSE IF n < 52 THEN 71 + n
    ELSE IF n < 62 THEN n - 4
    ELSE IF n = 62 THEN 43
    ELSE 47

B64Val(ch) ==
    IF ch >= 65 /\ ch <= 90 THEN ch - 65
    ELSE IF ch >= 97 /\ ch <= 122 THEN ch - 71
    ELSE IF ch >= 48 /\ ch <= 57 THEN ch + 4
    ELSE IF ch = 43 THEN 62
    ELSE IF ch = 47 THEN 63
    ELSE 0 - 1

Pad == 61

RECURSIVE B64Encode(_)
B64Encode(b) ==
    IF b = << >> THEN << >>
    ELSE IF Len(b) = 1
         THEN << B64Char(b[1] \div 4), B64Char((b[1] % 4) * 16), Pad, Pad >>
    ELSE IF Len(b) = 2
         THEN << B64Char(b[1] \div 4), B64Char((b[1] % 4) * 16 + (b[2] \div 16)),
                 B64Char((b[2] % 16) * 4), Pad >>
    ELSE << B64Char(b[1] \div 4), B64Char((b[1] % 4) * 16 + (b[2] \div 16)),
            B64Char((b[2] % 16) * 4 + (b[3] \div 64)), B64Char(b[3] % 64) >>
         \o B64Encode(SubSeq(b, 4, Len(b)))

\* btoa(s): throws InvalidCharacterError when a code unit is above 255
btoa(s) ==
    IF \E i \in 1 .. Len(s) : s[i] > 255 THEN [ok |-> FALSE, val |-> << >>]
    ELSE [ok |-> TRUE, val |-> B64Encode(s)]

RECURSIVE B64Decode(_)
B64Decode(d) ==
    IF Len(d) < 2 THEN << >>
    ELSE IF Len(d) = 2 THEN << d[1] * 4 + (d[2] \div 16) >>
    ELSE IF Len(d) = 3
         THEN << d[1] * 4 + (d[2] \div 16), (d[2] % 16) * 16 + (d[3] \div 4) >>
    ELSE << d[1] * 4 + (d[2] \div 16), (d[2] % 16) * 16 + (d[3] \div 4),
            (d[3] % 4) * 64 + d[4] >> \o B64Decode(SubSeq(d, 5, Len(d)))

\* atob(s) (forgiving-base64 decode): one or two '=' are dropped from a text
\* whose length is a multiple of 4; it throws when a length of 1 modulo 4 is
\* left or a code unit is outside the alphabet
atob(s) ==
    LET n    == Len(s)
        cut  == IF n > 0 /\ n % 4 = 0
                THEN (IF s[n] = Pad THEN (IF s[n - 1] = Pad THEN 2 ELSE 1) ELSE 0)
                ELSE 0
        body == SubSeq(s, 1, n - cut)
    IN  IF Len(body) % 4 = 1 \/ \E i \in 1 .. Len(body) : B64Val(body[i]) < 0
        THEN [ok |-> FALSE, val |-> << >>]
        ELSE [ok |-> TRUE, val |-> B64Decode([i \in 1 .. Len(body) |-> B64Val(body[i])])]

\* input.charCodeAt(i) ^ key.charCodeAt(i % key.length) ^ (i % 256), i from 0
Mixed(input, key, i) ==
    Xor(Xor(input[i + 1], key[(i % Len(key)) + 1]), i % 256)

\* a variant without the XOR
encrypt_Plain(input, key) ==
    IF ~ Truthy(key) THEN [ok |-> FALSE, val |-> << >>] ELSE btoa(input)

\* encrypt(input, key): throws when the key is missing or btoa throws
encrypt(input, key) ==
    IF ~ Truthy(key) THEN [ok |-> FALSE, val |-> << >>]
    ELSE btoa([i \in 1 .. Len(input) |-> Mixed(input, key, i - 1)])

\* a variant without the XOR
decrypt_Plain(input, key) ==
    IF ~ Truthy(key) THEN [ok |-> FALSE, val |-> << >>] ELSE atob(input)

\* decrypt(input, key): throws when the key is missing or atob throws
decrypt(input, key) ==
    IF ~ Truthy(key) THEN [ok |-> FALSE, val |-> << >>]
    ELSE LET decoded == atob(input)
         IN  IF ~ decoded.ok THEN decoded
             ELSE [ok  |-> TRUE,
                   val |-> [i \in 1 .. Len(decoded.val) |-> Mixed(decoded.val, key, i - 1)]]

\* s.split(':')
RECURSIVE Split(_)
Split(s) ==
    LET i == IndexFrom(s, Colon, 1)
    IN  IF i = 0 THEN << s >>
        ELSE << SubSeq(s, 1, i - 1) >> \o Split(SubSeq(s, i + 1, Len(s)))

\* parts[k] of an array, 0-based; undefined past its end
Part(parts, k) == IF k + 1 <= Len(parts) THEN parts[k + 1] ELSE Undefined

\* s.indexOf('BE:') === 0
StartsWithBE(s) == Len(s) >= 3 /\ SubSeq(s, 1, 3) = PrefixBE

(***************************************************************************)
(* broadcastEvent and the message listener.                                *)
(***************************************************************************)
\* a variant that drops debug
Options_NoDebug(enc, target, debug, eventIds) ==
    [encrypt |-> enc, target |-> target, debug |-> FALSE, _eventIds |-> eventIds]

\* the options object of a call
Options(enc, target, debug, eventIds) ==
    [encrypt |-> enc, target |-> target, debug |-> debug, _eventIds |-> eventIds]

\* what one run of broadcastEvent in window c does:
\*   threw      the message of the error it throws, "" if it returns
\*   recent     recentEvents of c afterwards
\*   draws      the number of Math.random() draws
\*   dispatched the CustomEvents dispatched on the window
\*   sends      the messages handed to postMessage
\*   eventData  the eventData object afterwards (it is stamped in place)
\*   lines      the console lines
Outcome(threw, recent, draws, dispatched, sends, eventData, lines) ==
    [threw |-> threw, recent |-> recent, draws |-> draws, dispatched |-> dispatched,
     sends |-> sends, eventData |-> eventData, lines |-> lines]

\* a variant that stamps the originId of the window at every hop
StampOrigin_Always(c, data) == [data EXCEPT !._originId = originId[c]]

\* if (!eventData._originId) eventData._originId = originId
StampOrigin(c, data) ==
    [data EXCEPT !._originId = IF Truthy(@) THEN @ ELSE originId[c]]

\* a variant that takes the target from the options at every hop
StampTarget_Overwrite(data, options) ==
    [data EXCEPT !._targetId = options.target]

\* eventData._targetId = eventData._targetId || options.target
StampTarget(data, options) ==
    [data EXCEPT !._targetId = OrElse(@, options.target)]

\* a variant that fires whatever the _targetId
FiresLocally_Always(c, data) == TRUE

\* a variant that fires only where the _targetId names the window
FiresLocally_Addressed(c, data) == data._targetId = originId[c]

\* only fire event locally if we have no target or we are the target
FiresLocally(c, data) ==
    ~ Truthy(data._targetId) \/ data._targetId = originId[c]

\* a variant that sends nothing once a postMessage would throw
RelayTargets_AllOrNothing(c) ==
    IF parent[c] \in blocked \/ frames(c) \cap blocked # {} THEN {}
    ELSE (IF parent[c] # NoParent THEN {parent[c]} ELSE {}) \cup frames(c)

\* a variant that sends to the parent and to window.frames[0] only
RelayTargets_FirstFrame(c) ==
    (IF parent[c] # NoParent THEN {parent[c]} ELSE {})
    \cup { d \in frames(c) : \A e \in frames(c) : d <= e }

\* a variant that sends to the frames only
RelayTargets_DownOnly(c) == frames(c)

\* a variant that sends to the parent only
RelayTargets_UpOnly(c) == IF parent[c] # NoParent THEN {parent[c]} ELSE {}

\* the windows the payload is sent to: window.parent unless it is the window
\* itself, then every window.frames[i]
RelayTargets(c) ==
    (IF parent[c] # NoParent THEN {parent[c]} ELSE {}) \cup frames(c)

\* the console lines of the relay when options.debug
RelayLines(c, debug) ==
    IF ~ debug THEN << >>
    ELSE (IF parent[c] # NoParent THEN << "up" >> ELSE << >>)
         \o [i \in 1 .. Cardinality(frames(c)) |-> "down"]

\* a variant that fires the event with the detail of the payload
Dispatched_Payload(data, detail) == detail

\* new CustomEvent(eventName, { detail: eventData }): the detail fired is
\* the event data, whatever payload.detail becomes
Dispatched(data, detail) == data

\* broadcastEvent(eventName, eventData, options) run in window c.  bid is
\* not part of the program: it names the call of a page script that the
\* run stems from, and travels with the payload.
broadcastEvent(c, eventName, eventData, options, bid) ==
    IF JsTruthy(eventData) /\ ~ TypeofObject(eventData)
    THEN Outcome("eventData must be an object", recentEvents[c], 0, << >>, {},
                 eventData, << >>)
    ELSE
    CHOOSE out \in {
    LET data    == StampTarget(StampOrigin(c, IF JsTruthy(eventData) THEN eventData
                                              ELSE EmptyObject), options)
        debug   == options.debug = TRUE
        cipher  == encrypt(JSONstringify(data), data._originId)
        detail  == IF options.encrypt
                   THEN JsString(PrefixBE \o cipher.val \o << Colon >> \o data._originId)
                   ELSE data
        event   == [type |-> eventName, detail |-> Dispatched(data, detail), bid |-> bid]
        local   == IF FiresLocally(c, data) THEN << event >> ELSE << >>
        payload == [type |-> JsString(eventName), detail |-> detail,
                    eventIds |-> seen.eventIds,
                    debug |-> debug, bid |-> bid]
        sends   == UNION { sendEvent(c, w, payload) : w \in RelayTargets(c) }
    IN  IF seen.suppress
        THEN Outcome("", seen.recent, 0, << >>, {}, data,
                     IF debug THEN << "suppressed" >> ELSE << >>)
        ELSE IF options.encrypt /\ ~ cipher.ok
        THEN Outcome("InvalidCharacterError", seen.recent, seen.draws, local, {},
                     data, << >>)
        ELSE Outcome("", seen.recent, seen.draws, local, sends, data,
                     RelayLines(c, debug)) :
    seen \in { alreadyBroadcast(c, recentEvents[c], eventName, options._eventIds,
                                now, rnd[c] + 1) } } : TRUE

\* a variant without the try/catch fallback to null
Decrypted_Raw(detail) == [detail |-> detail, lines |-> << >>]

\* the detail the listener hands on: an encrypted detail decrypted and
\* parsed, null (and a console line) when that throws
Decrypted(detail) ==
    IF detail.t = "string" /\ StartsWithBE(detail.s)
    THEN LET parts  == Split(detail.s)
             plain  == decrypt(Part(parts, 1), Part(parts, 2))
             parsed == IF plain.ok THEN JSONparse(plain.val)
                       ELSE [ok |-> FALSE, val |-> JsNull]
         IN  IF parsed.ok THEN [detail |-> parsed.val, lines |-> << >>]
             ELSE [detail |-> JsNull, lines |-> << "Failed to decrypt event data" >>]
    ELSE [detail |-> detail, lines |-> << >>]

\* window.addEventListener('message', ...) of window c run on a message
\* from window source: ignored (no Outcome of broadcastEvent) or handed to
\* broadcastEvent
Ignored(c) == Outcome("", recentEvents[c], 0, << >>, {}, JsUndefined, << >>)

\* eventName = String(eventName || '') || '' of a string, a number or undefined
NameOf(x) ==
    CASE x.t = "string" -> x.s
      [] x.t = "number" -> (IF x.n = 0 THEN << >> ELSE DecStr(x.n))
      [] OTHER          -> << >>

\* a variant that skips the check of _broadcast.type
HasPayload_AnyType(m) == m # JsUndefined /\ JsTruthy(m.detail)

\* _broadcast && typeof _broadcast.type === 'string' && _broadcast.detail,
\* where m is event.data && event.data._broadcast
HasPayload(m) == m # JsUndefined /\ m.type.t = "string" /\ JsTruthy(m.detail)

messageListener(c, source, m) ==
    IF source = c THEN Ignored(c)
    ELSE IF ~ HasPayload(m) THEN Ignored(c)
    ELSE LET got == Decrypted(m.detail)
             run == broadcastEvent(c, NameOf(m.type), got.detail,
                                   Options(FALSE, Undefined, m.debug, m.eventIds), m.bid)
         IN  [run EXCEPT !.lines = (IF m.debug THEN << "received" >> ELSE << >>)
                                   \o got.lines \o @]

(***************************************************************************)
(* The state machine.                                                      *)
(***************************************************************************)
NoCall == [ctx |-> 0, name |-> << >>, data |-> "none", target |-> Undefined,
           encrypt |-> FALSE, debug |-> FALSE, threw |-> ""]

\* event names and targets page scripts use: "a:b", "ab", and as target the
\* originId of a window or "inv", the originId of none
NameAB == << 97, 58, 98 >>

NamePlain == << 97, 98 >>

InvalidTargetId == << 105, 110, 118 >>

TargetIds == { originId[c] : c \in Ctx } \cup {InvalidTargetId}

\* the event data a page script passes: nothing, a number, an object
\* literal { v: 'x' } or { v: '€' }, the object it holds, or ("reused") an
\* object { v: 'x' } that it passed before to a call of broadcastEvent with
\* the top window as target, which left _originId and _targetId on it
Literal(v) == JsObject(Undefined, Undefined, v)

EventData(c, data) ==
    CASE data = "undefined" -> JsUndefined
      [] data = "zero"      -> JsNumber(0)
      [] data = "five"      -> JsNumber(5)
      [] data = "literal"   -> Literal(<< 120 >>)
      [] data = "wide"      -> Literal(<< 8364 >>)
      [] data = "held"      -> held[c]
      [] data = "reused"    -> JsObject(originId[c], originId[1], << 120 >>)

\* the state once the script has run in each of the n windows of a page
InitN(n) ==
    /\ parent \in Trees(n)
    /\ originId = [c \in Windows(n) |-> stringHash(OriginInput(c, 0, 1))]
    /\ rnd = [c \in Windows(n) |-> 1]
    /\ recentEvents = [c \in Windows(n) |-> << >>]
    /\ now = 0
    /\ net = {}
    /\ held = [c \in Windows(n) |-> Literal(<< 120 >>)]
    /\ calls = 0
    /\ last = NoCall
    /\ fired = [c \in Windows(n) |-> << >>]
    /\ posted = {}
    /\ log = [c \in Windows(n) |-> << >>]
    /\ minted = [c \in Windows(n) |-> << >>]
    /\ lateEcho = {}
    /\ blocked = {}
    /\ errors = [c \in Windows(n) |-> << >>]
    /\ text = << >>
    /\ hashed = << >>

Init == InitN(NumCtx)

\* the effects on the state of a run of broadcastEvent in window c on a
\* payload that came with eventIds
Apply(c, run, eventIds) ==
    /\ recentEvents' = [recentEvents EXCEPT ![c] = run.recent]
    /\ rnd' = [rnd EXCEPT ![c] = @ + run.draws]
    /\ fired' = [fired EXCEPT ![c] = @ \o run.dispatched]
    /\ posted' = posted \cup run.sends
    /\ log' = [log EXCEPT ![c] = @ \o run.lines]
    /\ minted' = [minted EXCEPT ![c] =
                     [ id \in DOMAIN @ \cup DOMAIN run.recent |->
                         IF id \in DOMAIN @ THEN @[id] ELSE run.recent[id] ]]
    /\ lateEcho' = IF \E i \in 1 .. Len(eventIds) :
                         /\ eventIds[i] \in DOMAIN minted[c]
                         /\ now - minted[c][eventIds[i]] > ExpiryMs
                   THEN lateEcho \cup {c} ELSE lateEcho

\* a page script of window c calls broadcastEvent(name, data, options)
Call(c, name, data, target, enc, dbg) ==
    /\ \E run \in { broadcastEvent(c, name, EventData(c, data),
                                    Options(enc, target, dbg, << >>), calls + 1) } :
           /\ Apply(c, run, << >>)
           /\ net' = net \cup run.sends
           /\ held' = IF data = "held" THEN [held EXCEPT ![c] = run.eventData] ELSE held
           /\ last' = [ctx |-> c, name |-> name, data |-> data, target |-> target,
                       encrypt |-> enc, debug |-> dbg, threw |-> run.threw]
    /\ calls' = calls + 1
    /\ UNCHANGED << parent, originId, now, blocked, errors, text, hashed >>

\* the transport delivers message m: the listener of m.dst runs
Receive(m) ==
    /\ m \in net
    /\ \E run \in { messageListener(m.dst, m.src, m._broadcast) } :
           /\ Apply(m.dst, run, IF m._broadcast = JsUndefined THEN << >>
                                ELSE m._broadcast.eventIds)
           /\ net' = (net \ {m}) \cup run.sends
           /\ errors' = IF run.threw = "" THEN errors
                         ELSE [errors EXCEPT ![m.dst] = Append(@, run.threw)]
    /\ UNCHANGED << parent, originId, now, held, calls, last, blocked, text, hashed >>

Deliver == \E m \in net : Receive(m)

\* time passes: the clock reaches the time late
Tick(late) ==
    /\ now < late
    /\ now' = late
    /\ UNCHANGED << parent, originId, recentEvents, rnd, net, held, calls, last,
                    fired, posted, log, minted, lateEcho, blocked, errors, text, hashed >>

(***************************************************************************)
(* Spec: one broadcast to everyone from any window of any tree, with event *)
(* data or without.                                                        *)
(***************************************************************************)
Broadcast ==
    /\ calls = 0
    /\ \E c \in Ctx, data \in {"undefined", "literal"} :
           Call(c, NameAB, data, Undefined, FALSE, FALSE)

Next == Broadcast \/ Deliver \/ Tick(LateMs)

Spec == Init /\ [][Next]_vars

(***************************************************************************)
(* SpecTarget: one broadcast with options.target set.                      *)
(***************************************************************************)
BroadcastTarget ==
    /\ calls = 0
    /\ \E c \in Ctx, data \in {"undefined", "reused"}, target \in TargetIds :
           Call(c, NameAB, data, target, FALSE, FALSE)

NextTarget == BroadcastTarget \/ Deliver \/ Tick(LateMs)

SpecTarget == Init /\ [][NextTarget]_vars

(***************************************************************************)
(* SpecApi: one call of broadcastEvent in a page with one iframe, with any *)
(* kind of event name and event data.                                      *)
(***************************************************************************)
BroadcastAny ==
    /\ calls = 0
    /\ \E c \in Ctx, name \in {NameAB, NamePlain},
          data \in {"undefined", "zero", "five", "literal"} :
           Call(c, name, data, Undefined, FALSE, FALSE)

NextApi == BroadcastAny \/ Deliver \/ Tick(LateMs)

SpecApi == InitN(PairCtx) /\ [][NextApi]_vars

(***************************************************************************)
(* FairSpec: Spec with a transport that delivers every message in the end. *)
(***************************************************************************)
FairSpec == Init /\ [][Next]_vars /\ WF_vars(Deliver)

(***************************************************************************)
(* What is observed of broadcast b.                                        *)
(***************************************************************************)
\* how many times window c fired broadcast b
Fires(c, b) == Cardinality({ i \in DOMAIN fired[c] : fired[c][i].bid = b })

\* the messages posted for broadcast b
Posted(b) == { m \in posted : m._broadcast.bid = b }

\* the edges of the tree
Edges == Cardinality(Ctx) - 1

\* the call of the behaviour has returned without throwing
Returned == calls = 1 /\ last.threw = ""

(***************************************************************************)
(* Propagation.                                                            *)
(***************************************************************************)
\* C1 as stated: whatever the order and the timing of the messages, no
\* window fires a broadcast more than once
C1_FiresAtMostOnce == \A c \in Ctx : Fires(c, 1) <= 1

\* C1: as long as no window has received a payload carrying an event id it
\* stored more than 30 seconds earlier, no window has fired the broadcast
\* more than once
C1_FiresAtMostOnceWhenTimely ==
    lateEcho = {} => \A c \in Ctx : Fires(c, 1) <= 1

\* every window of a tree of NumCtx windows fired once, the echoes that
\* came back were suppressed, nothing is in flight
C1_Witness ==
    /\ Cardinality(Ctx) = NumCtx
    /\ net = {}
    /\ lateEcho = {}
    /\ \A c \in Ctx : Fires(c, 1) = 1
    /\ Cardinality(Posted(1)) = 2 * Edges

\* C2: once a call of broadcastEvent has returned, a transport that
\* delivers every message leads to a state where every window of the tree
\* has fired the event
C2_EveryWindowFires == Returned ~> (\A c \in Ctx : Fires(c, 1) >= 1)

\* a leaf of a chain of NumCtx windows called broadcastEvent and the window
\* at the other end, two hops away, fired
C2_Witness ==
    /\ Returned
    /\ last.ctx = NumCtx
    /\ parent[NumCtx] = NumCtx - 1
    /\ \A c \in Ctx : Fires(c, 1) >= 1

\* C3 as stated: whatever the timing, at most two messages are posted per
\* edge of the tree
C3_SendsBounded == Cardinality(Posted(1)) <= 2 * Edges

\* C3: as long as no window has received a payload carrying an event id it
\* stored more than 30 seconds earlier, each window has stored at most one
\* event id for the broadcast, at most two messages per edge were posted,
\* and once nothing is in flight every window holds an event id for it
C3_SendsBoundedWhenTimely ==
    lateEcho = {} =>
        /\ \A c \in Ctx : Cardinality(DOMAIN minted[c]) <= 1
        /\ Cardinality(Posted(1)) <= 2 * Edges
        /\ (Returned /\ net = {}) =>
               \A c \in Ctx : Cardinality(DOMAIN minted[c]) = 1

\* propagation has ended in a tree of NumCtx windows with one message
\* posted in each direction of each edge
C3_Witness ==
    /\ Returned
    /\ net = {}
    /\ lateEcho = {}
    /\ Cardinality(Ctx) = NumCtx
    /\ \A c \in Ctx : \A d \in RelayTargets(c) :
           \E m \in Posted(1) : m.src = c /\ m.dst = d

(***************************************************************************)
(* Targeting.                                                              *)
(***************************************************************************)
\* the windows next to c in the tree
Neighbours(c) == { d \in Ctx : parent[c] = d \/ parent[d] = c }

\* the window whose originId is id, if any
Owners(id) == { c \in Ctx : originId[c] = id }

\* C4: a broadcast called with options.target set to the originId of a
\* window is fired at that window only
C4_FiresAtOptionsTarget ==
    \A c \in Ctx : fired[c] # << >> => originId[c] = last.target

\* a window fires an event with a _targetId only if that is its own
\* originId, and when the event data handed to broadcastEvent carried no
\* _targetId that _targetId is options.target: the event is fired at the
\* target window only
FiresAtTargetOnly ==
    \A c \in Ctx : \A i \in DOMAIN fired[c] :
        /\ fired[c][i].detail._targetId = originId[c]
        /\ last.data = "undefined" => originId[c] = last.target

\* the top window of a chain of NumCtx windows targeted the window at the
\* other end: that window fired, the caller and the relay between did not
FiresAtTargetOnly_Witness ==
    /\ Returned
    /\ last.ctx = 1 /\ last.data = "undefined"
    /\ parent[NumCtx] = NumCtx - 1
    /\ last.target = originId[NumCtx]
    /\ Fires(NumCtx, 1) = 1
    /\ \A c \in Ctx \ {NumCtx} : fired[c] = << >> /\ minted[c] # << >>

\* C5: a broadcast called with an options.target that no window has is
\* fired nowhere
C5_UnknownOptionsTargetFiresNowhere ==
    last.target = InvalidTargetId => \A c \in Ctx : fired[c] = << >>

\* a broadcast called with an options.target that no window has and event
\* data that carried no _targetId is fired nowhere
UnknownTargetFiresNowhere ==
    (last.target = InvalidTargetId /\ last.data = "undefined") =>
        \A c \in Ctx : fired[c] = << >>

\* a broadcast to a target that no window has went through the whole tree
\* of NumCtx windows and was fired nowhere
UnknownTargetFiresNowhere_Witness ==
    /\ Returned /\ net = {}
    /\ last.target = InvalidTargetId /\ last.data = "undefined"
    /\ Cardinality(Ctx) = NumCtx
    /\ \A c \in Ctx : minted[c] # << >> /\ fired[c] = << >>

\* C6: a window that has run a targeted payload to the end, target or not,
\* has posted it with its _targetId to its parent and to each of its
\* frames, and once nothing is in flight every window has run it
C6_RelaysWhateverTheTarget ==
    /\ \A c \in Ctx : minted[c] # << >> =>
           \A d \in Neighbours(c) :
               \E m \in Posted(1) :
                   /\ m.src = c /\ m.dst = d
                   /\ Truthy(m._broadcast.detail._targetId)
                   /\ last.data = "undefined" =>
                          m._broadcast.detail._targetId = last.target
    /\ (Returned /\ net = {}) => \A c \in Ctx : minted[c] # << >>

\* the middle window of a chain is not the target: it did not fire, and
\* it posted the payload up to the top window and down to the target
C6_Witness ==
    /\ Returned
    /\ parent[NumCtx] = NumCtx - 1
    /\ Owners(last.target) = {NumCtx}
    /\ fired[NumCtx - 1] = << >>
    /\ \A d \in Neighbours(NumCtx - 1) :
           \E m \in Posted(1) : m.src = NumCtx - 1 /\ m.dst = d
    /\ Fires(NumCtx, 1) = 1

(***************************************************************************)
(* Origin.                                                                 *)
(***************************************************************************)
\* C7: every message posted for a broadcast and every event fired for it,
\* at whatever hop, carries the originId of the window whose script called
\* broadcastEvent
C7_OriginIdKept ==
    /\ \A m \in posted : m._broadcast.detail._originId = originId[last.ctx]
    /\ \A c \in Ctx : \A i \in DOMAIN fired[c] :
           fired[c][i].detail._originId = originId[last.ctx]

\* a window two hops from the caller fired the event, relayed by the
\* window between, with the originId of the caller
C7_Witness ==
    /\ Returned
    /\ last.ctx = 1
    /\ parent[NumCtx] = NumCtx - 1
    /\ \E m \in posted : m.src = NumCtx - 1 /\ m.dst = NumCtx
    /\ Fires(NumCtx, 1) = 1
    /\ fired[NumCtx][1].detail._originId = originId[1]
    /\ originId[1] # originId[NumCtx]

NoEffect ==
    /\ posted = {}
    /\ \A c \in Ctx : fired[c] = << >> /\ recentEvents[c] = << >>

\* C9: a call with an event name without ':' throws for the name
\* and has no effect, and a call with an event name with ':' and event
\* data that is an object or absent returns
C9_NameWithoutColonRejected ==
    calls = 1 =>
        /\ ~ HasColon(last.name) =>
               last.threw = "eventName must be namespaced with :" /\ NoEffect
        /\ (HasColon(last.name) /\ last.data \in {"undefined", "literal"}) =>
               last.threw = ""

\* C10: a call with event data that is given and is not an
\* object throws for the event data and has no effect
C10_NonObjectRejected ==
    (calls = 1 /\ last.data \in {"zero", "five"}) =>
        last.threw = "eventData must be an object" /\ NoEffect

(***************************************************************************)
(* SpecOptions: one broadcast with any options: encrypted or not, to       *)
(* everyone or to the last window, with debug or without, with event data  *)
(* { v: 'x' } or { v: '€' }.                                               *)
(***************************************************************************)
BroadcastOptions ==
    /\ calls = 0
    /\ \E c \in Ctx, data \in {"literal", "wide"},
          target \in {Undefined, originId[NumCtx]}, enc \in BOOLEAN, dbg \in BOOLEAN :
           Call(c, NameAB, data, target, enc, dbg)

NextOptions == BroadcastOptions \/ Deliver

SpecOptions == Init /\ [][NextOptions]_vars

\* the event data of the call once broadcastEvent has stamped it
Created ==
    LET given == EventData(last.ctx, last.data)
    IN  StampTarget(StampOrigin(last.ctx, IF JsTruthy(given) THEN given
                                          ELSE EmptyObject),
                    Options(last.encrypt, last.target, last.debug, << >>))

\* detail is a string that starts with 'BE:'
Encrypted(detail) == detail.t = "string" /\ StartsWithBE(detail.s)

(***************************************************************************)
(* Encryption.                                                             *)
(***************************************************************************)
\* C11: every message posted for a broadcast called with encrypt: true, by
\* the caller and by every window that relays it, carries the event data
\* encrypted
C11_CiphertextOnEveryHop ==
    last.encrypt => \A m \in posted : Encrypted(m._broadcast.detail)

\* C12: the detail of every message posted by a call with encrypt: true is
\* the string 'BE:' + ciphertext + ':' + key, where key is the _originId of
\* the event data and the ciphertext decrypts with key to the JSON text of
\* the event data
C12_EnvelopeOfEncryptedCall ==
    (calls = 1 /\ last.encrypt) =>
        \A m \in posted : m.src = last.ctx =>
            /\ m._broadcast.detail.t = "string"
            /\ \E parts \in { Split(m._broadcast.detail.s) } :
                   /\ Len(parts) = 3
                   /\ parts[1] = << 66, 69 >>
                   /\ parts[3] = Created._originId
                   /\ parts[3] = originId[last.ctx]
                   /\ decrypt(parts[2], parts[3])
                        = [ok |-> TRUE, val |-> JSONstringify(Created)]

\* a call with encrypt: true in the middle window of a chain posted an
\* encrypted message to its parent and to its frame
C12_Witness ==
    /\ Returned /\ last.encrypt
    /\ parent[NumCtx] = NumCtx - 1
    /\ last.ctx = NumCtx - 1
    /\ \A d \in Neighbours(last.ctx) :
           \E m \in posted :
               m.src = last.ctx /\ m.dst = d /\ Encrypted(m._broadcast.detail)

\* C13: every event fired for a broadcast called with encrypt: true has as
\* detail the event data of the call, with its _originId and _targetId
C13_DecryptedDetailFired ==
    last.encrypt =>
        \A c \in Ctx : \A i \in DOMAIN fired[c] : fired[c][i].detail = Created

\* the frame of the caller received the encrypted message of a targeted
\* call, and the target, one hop further, fired the event data of the call
C13_Witness ==
    /\ Returned /\ last.encrypt
    /\ last.ctx = 1
    /\ parent[NumCtx] = NumCtx - 1
    /\ last.target = originId[NumCtx]
    /\ \E m \in posted \ net : m.src = 1 /\ Encrypted(m._broadcast.detail)
    /\ Fires(NumCtx, 1) = 1
    /\ fired[NumCtx][1].detail.v = << 120 >>

\* C14: the JSON text of the event data of a call with encrypt: true,
\* encrypted with its _originId and decrypted with it again, parses to the
\* event data
C14_RoundTrip ==
    (calls = 1 /\ last.encrypt) =>
        \E sealed \in { encrypt(JSONstringify(Created), Created._originId) } :
            /\ sealed.ok
            /\ \E plain \in { decrypt(sealed.val, Created._originId) } :
                   /\ plain.ok
                   /\ JSONparse(plain.val) = [ok |-> TRUE, val |-> Created]

\* the round trip for event data whose JSON text has no code unit above 255
RoundTripLatin1 ==
    (calls = 1 /\ last.encrypt /\ last.data = "literal") =>
        \E sealed \in { encrypt(JSONstringify(Created), Created._originId) } :
            /\ sealed.ok
            /\ \E plain \in { decrypt(sealed.val, Created._originId) } :
                   /\ plain.ok
                   /\ JSONparse(plain.val) = [ok |-> TRUE, val |-> Created]

(***************************************************************************)
(* What travels with the payload.                                          *)
(***************************************************************************)
\* the event data a message carries, decrypted when it is encrypted
Carried(m) == Decrypted(m._broadcast.detail).detail

\* C19: every message posted for a broadcast, encrypted or not, and every
\* event fired for it carries the _targetId that the event data had when
\* the call had stamped it: options.target, or none
C19_TargetIdKept ==
    calls = 1 =>
        /\ Created._targetId = last.target
        /\ \A m \in posted : Carried(m)._targetId = Created._targetId
        /\ \A c \in Ctx : \A i \in DOMAIN fired[c] :
               fired[c][i].detail._targetId = Created._targetId

\* the top window of a chain targeted the window at the other end: the
\* window between posted the payload on with that _targetId, and the
\* target fired an event with it
C19_Witness ==
    /\ Returned
    /\ last.ctx = 1
    /\ parent[NumCtx] = NumCtx - 1
    /\ last.target = originId[NumCtx]
    /\ \E m \in posted :
           /\ m.src = NumCtx - 1 /\ m.dst = NumCtx
           /\ Carried(m)._targetId = originId[NumCtx]
    /\ Fires(NumCtx, 1) = 1
    /\ fired[NumCtx][1].detail._targetId = originId[NumCtx]

\* C20: every message posted for a broadcast carries the debug flag of the
\* call; with it every window that received the payload logged so, and
\* without it no window logged anything
C20_DebugFlagKept ==
    calls = 1 =>
        /\ \A m \in posted : m._broadcast.debug = last.debug
        /\ \A c \in Ctx :
               IF last.debug
               THEN (c # last.ctx /\ minted[c] # << >>) => log[c][1] = "received"
               ELSE log[c] = << >>

\* a broadcast with debug: true went through a chain: the window at the
\* other end logged the receipt and the relay, the caller a suppressed echo
C20_Witness ==
    /\ Returned /\ last.debug
    /\ last.ctx = 1
    /\ parent[NumCtx] = NumCtx - 1
    /\ net = {}
    /\ log[NumCtx] = << "received", "up" >>
    /\ log[1][Len(log[1])] = "suppressed"

(***************************************************************************)
(* SpecForeign: a script that is not broadcastEvent posts to one window a  *)
(* message whose detail starts with 'BE:' and cannot be decrypted.         *)
(***************************************************************************)
\* event.source of a message posted by a window outside the tree
Elsewhere == 0

\* 'BE:!:k' (atob throws), 'BE:YQ==' (no key) and 'BE:YQ==:k' (decrypts to
\* a line feed, JSON.parse throws)
Malformed == { << 66, 69, 58, 33, 58, 107 >>,
               << 66, 69, 58, 89, 81, 61, 61 >>,
               << 66, 69, 58, 89, 81, 61, 61, 58, 107 >> }

Inject ==
    /\ net = {}
    /\ \A c \in Ctx : minted[c] = << >>
    /\ \E w \in Ctx, bad \in Malformed, dbg \in BOOLEAN :
           net' = { [src |-> Elsewhere, dst |-> w,
                     _broadcast |-> [type |-> JsString(NameAB), detail |-> JsString(bad),
                                     eventIds |-> << >>, debug |-> dbg, bid |-> 1]] }
    /\ UNCHANGED << parent, originId, recentEvents, now, rnd, held, calls, last,
                    fired, posted, log, minted, lateEcho, blocked, errors, text, hashed >>

NextForeign == Inject \/ Deliver

SpecForeign == Init /\ [][NextForeign]_vars

\* window c logged that it could not decrypt
FailedToDecrypt(c) ==
    \E i \in DOMAIN log[c] : log[c][i] = "Failed to decrypt event data"

\* C15: no message listener throws on a detail that cannot be decrypted;
\* the window that received it logged the failure, stored an event id,
\* fired the event and posted it to its parent and its frames with an
\* event data that holds nothing but that window's _originId, and the
\* broadcast goes on from there: every event fired holds no more, and once
\* nothing is in flight every window has fired once
C15_DecryptFailureProceeds ==
    /\ \A c \in Ctx : errors[c] = << >>
    /\ \A c \in Ctx : \A i \in DOMAIN fired[c] :
           fired[c][i].detail.v = Undefined /\ ~ Truthy(fired[c][i].detail._targetId)
    /\ \A c \in Ctx : FailedToDecrypt(c) =>
           /\ Fires(c, 1) = 1
           /\ minted[c] # << >>
           /\ fired[c][1].detail = JsObject(originId[c], Undefined, Undefined)
           /\ \A d \in Neighbours(c) :
                  \E m \in posted :
                      /\ m.src = c /\ m.dst = d
                      /\ m._broadcast.detail = JsObject(originId[c], Undefined, Undefined)
    /\ (net = {} /\ \E c \in Ctx : minted[c] # << >>) =>
           \A c \in Ctx : Fires(c, 1) = 1

\* the last window of a chain received the message: it logged the failure
\* and the top window, two hops away, fired the event without data
C15_Witness ==
    /\ parent[NumCtx] = NumCtx - 1
    /\ FailedToDecrypt(NumCtx)
    /\ net = {}
    /\ Fires(1, 1) = 1
    /\ fired[1][1].detail = JsObject(originId[NumCtx], Undefined, Undefined)

(***************************************************************************)
(* SpecPages: one broadcast in a page of one to NumCtx windows, some of    *)
(* which come to reject messages (their postMessage throws).               *)
(***************************************************************************)
InitPages == \E n \in 1 .. NumCtx : InitN(n)

\* from now on postMessage of window w throws
Block(w) ==
    /\ w \notin blocked
    /\ blocked' = blocked \cup {w}
    /\ UNCHANGED << parent, originId, recentEvents, now, rnd, net, held, calls,
                    last, fired, posted, log, minted, lateEcho, errors, text, hashed >>

BroadcastPlain ==
    /\ calls = 0
    /\ \E c \in Ctx : Call(c, NameAB, "undefined", Undefined, FALSE, FALSE)

NextPages == BroadcastPlain \/ Deliver \/ (\E w \in Ctx : Block(w))

SpecPages == InitPages /\ [][NextPages]_vars

\* C16: no message is posted by a window to itself, and a broadcast in a
\* page of a single window fires the event there and posts nothing
C16_NoSelfSend ==
    /\ \A m \in posted : m.src # m.dst
    /\ (calls = 1 /\ Cardinality(Ctx) = 1) => (Fires(1, 1) = 1 /\ posted = {})

\* a page of a single window broadcast: the event was fired, nothing posted
C16_Witness ==
    /\ Cardinality(Ctx) = 1
    /\ Returned
    /\ Fires(1, 1) = 1
    /\ posted = {} /\ net = {}

\* C17: no call of broadcastEvent and no message listener throws because a
\* postMessage threw, and a window that has run a payload to the end has
\* posted it to every window next to it whose postMessage does not throw
C17_SendFailureSkipsOneTarget ==
    /\ calls = 1 => last.threw = ""
    /\ \A c \in Ctx : errors[c] = << >>
    /\ \A c \in Ctx : minted[c] # << >> =>
           \A d \in Neighbours(c) \ blocked :
               \E m \in posted : m.src = c /\ m.dst = d

\* the middle window of a chain broadcast when the postMessage of its
\* parent threw: nothing was posted to the parent, the frame got the payload
C17_Witness ==
    /\ NumCtx \in Ctx
    /\ parent[NumCtx] = NumCtx - 1
    /\ NumCtx - 1 # 1
    /\ Returned
    /\ last.ctx = NumCtx - 1
    /\ parent[last.ctx] \in blocked
    /\ ~ \E m \in posted : m.src = last.ctx /\ m.dst = parent[last.ctx]
    /\ \E m \in posted : m.src = last.ctx /\ m.dst = NumCtx
    /\ Fires(NumCtx, 1) = 1

(***************************************************************************)
(* SpecReply: a broadcast to everyone, then a window that has been fired   *)
(* the event answers with options.target set to the _originId it was given.*)
(***************************************************************************)
Reply ==
    /\ calls = 1
    /\ \E x \in Ctx : \E i \in DOMAIN fired[x] :
           Call(x, NameAB, "undefined", fired[x][i].detail._originId, FALSE, FALSE)

NextReply == BroadcastPlain \/ Reply \/ Deliver

SpecReply == Init /\ [][NextReply]_vars

\* the window that broadcastEvent was called in for broadcast b: the one
\* that posted a payload carrying a single event id
Originator(b) ==
    { c \in Ctx : \E m \in Posted(b) : m.src = c /\ Len(m._broadcast.eventIds) = 1 }

\* C18: once a window has answered a broadcast with options.target set to
\* the _originId of the event it was fired, that target is the originId of
\* the window the broadcast was called in, the answer is fired in no other
\* window, and it has been fired there once when no payload of the answer
\* is in flight
C18_ReplyFiredAtOriginatorOnly ==
    calls = 2 =>
        /\ last.threw = ""
        /\ Owners(last.target) = Originator(1)
        /\ \A c \in Ctx : Fires(c, 2) >= 1 => c \in Originator(1)
        /\ (\A m \in net : m._broadcast.bid # 2) =>
               \A o \in Originator(1) : Fires(o, 2) = 1

\* the last window of a chain answered a broadcast of the top window, two
\* hops away: the answer was fired at the top window and nowhere else
C18_Witness ==
    /\ calls = 2
    /\ parent[NumCtx] = NumCtx - 1
    /\ NumCtx - 1 # 1
    /\ Originator(1) = {1}
    /\ last.ctx = NumCtx
    /\ net = {}
    /\ Fires(1, 2) = 1
    /\ \A c \in Ctx \ {1} : Fires(c, 2) = 0 /\ Fires(c, 1) = 1

(***************************************************************************)
(* SpecStray: a broadcast, and one message that is not a broadcast: posted *)
(* by a window to itself, or by a script outside the page without the      *)
(* _broadcast property or with a type that is missing or a number.         *)
(***************************************************************************)
\* the bid of a payload that no call of broadcastEvent made
NoBid == 0

\* a payload as broadcastEvent builds it, with the given type
StrayPayload(type) ==
    [type |-> type, detail |-> JsObject(Undefined, Undefined, << 120 >>),
     eventIds |-> << >>, debug |-> TRUE, bid |-> NoBid]

\* the message is one the listener is to ignore
IsStray(m) ==
    \/ m.src = m.dst
    \/ m._broadcast = JsUndefined
    \/ m._broadcast.type.t # "string"

StrayMessages ==
    { [src |-> w, dst |-> w, _broadcast |-> StrayPayload(JsString(NameAB))] : w \in Ctx }
    \cup { [src |-> Elsewhere, dst |-> w, _broadcast |-> b] :
             w \in Ctx,
             b \in { JsUndefined, StrayPayload(JsUndefined), StrayPayload(JsNumber(5)) } }

\* a script posts a message that is not a broadcast, once
Stray ==
    /\ \A m \in posted : ~ IsStray(m)
    /\ \E m \in StrayMessages :
           /\ net' = net \cup {m}
           /\ posted' = posted \cup {m}
    /\ UNCHANGED << parent, originId, recentEvents, now, rnd, held, calls, last,
                    fired, log, minted, lateEcho, blocked, errors, text, hashed >>

NextStray == BroadcastPlain \/ Stray \/ Deliver

SpecStray == Init /\ [][NextStray]_vars

\* C28: the delivery of a message that a window posted to itself, or that
\* has no _broadcast, or whose _broadcast.type is missing or not a string,
\* takes the message off the transport and changes nothing else: no event
\* fired, no message posted, no event id stored, no console line, no error
C28_StrayIgnored ==
    [][ \A m \in net :
          (m \notin net' /\ IsStray(m)) =>
              /\ net' = net \ {m}
              /\ UNCHANGED << recentEvents, rnd, fired, posted, log, minted,
                              lateEcho, errors >> ]_vars

\* a message with a number as type has been delivered to a window that the
\* broadcast had reached before: its store holds the one event id still
C28_Witness ==
    \E m \in posted \ net :
        /\ m.src = Elsewhere
        /\ m._broadcast # JsUndefined
        /\ m._broadcast.type = JsNumber(5)
        /\ Fires(m.dst, 1) = 1
        /\ Cardinality(DOMAIN recentEvents[m.dst]) = 1
        /\ Len(fired[m.dst]) = 1

(***************************************************************************)
(* SpecRecover: things go wrong (a detail that cannot be decrypted, a      *)
(* message that is not a broadcast, a rejected call or a broadcast with    *)
(* its suppressed echoes, a window whose postMessage throws), then a       *)
(* script broadcasts.                                                      *)
(***************************************************************************)
\* a script outside the page posts 'BE:!:k' as the detail of a payload
BadDetail ==
    /\ Inject
    /\ \A m \in net' : m._broadcast.detail.s = << 66, 69, 58, 33, 58, 107 >>
                       /\ ~ m._broadcast.debug

\* a script outside the page posts a message without _broadcast
NoBroadcast ==
    /\ net = {} /\ calls = 0
    /\ Stray
    /\ \A m \in net' : m._broadcast = JsUndefined

\* the postMessage of one window starts to throw
BlockOne == calls = 0 /\ blocked = {} /\ \E w \in Ctx : Block(w)

\* the first call: a broadcast, or a call that throws on its event data
Trouble ==
    /\ calls = 0 /\ net = {}
    /\ \E c \in Ctx, data \in {"undefined", "five"} :
           Call(c, NameAB, data, Undefined, FALSE, TRUE)

\* the later broadcast
Fresh ==
    /\ calls = 1 /\ net = {}
    /\ \E c \in Ctx : Call(c, NameAB, "literal", Undefined, FALSE, FALSE)

NextRecover == BadDetail \/ NoBroadcast \/ BlockOne \/ Trouble \/ Fresh \/ Deliver

SpecRecover == Init /\ [][NextRecover]_vars

\* window c has been delivered a payload of broadcast b
Received(c, b) ==
    \E m \in posted \ net :
        /\ m.dst = c
        /\ ~ IsStray(m)
        /\ m._broadcast.bid = b

\* window c has posted a payload of broadcast b to window d
Relayed(c, d, b) ==
    \E m \in posted :
        /\ m.src = c /\ m.dst = d
        /\ ~ IsStray(m)
        /\ m._broadcast.bid = b

\* C21: whatever went wrong before, the later broadcast returns, and the
\* window it was called in and every window that has been delivered a
\* payload of it have fired it and posted it to every window next to them
\* whose postMessage does not throw
C21_LaterBroadcastGoesThrough ==
    calls = 2 =>
        /\ last.threw = ""
        /\ \A c \in Ctx :
               (c = last.ctx \/ Received(c, 2)) =>
                   /\ Fires(c, 2) >= 1
                   /\ \A d \in Neighbours(c) \ blocked : Relayed(c, d, 2)

\* a window failed to decrypt, a message that is not a broadcast was
\* delivered, the first broadcast had its echoes suppressed, a postMessage
\* throws: the later broadcast was fired in every window, three hops in all
C21_Witness ==
    /\ calls = 2 /\ net = {}
    /\ \E c \in Ctx : FailedToDecrypt(c)
    /\ \E c \in Ctx : \E i \in DOMAIN log[c] : log[c][i] = "suppressed"
    /\ \E m \in posted : IsStray(m)
    /\ blocked # {}
    /\ \A c \in Ctx : Fires(c, 2) = 1

(***************************************************************************)
(* SpecForged: a script outside the page posts a payload that carries an   *)
(* event id of its own making; a script of the page may broadcast.         *)
(***************************************************************************)
\* 'zz', an event id no window stored, and 'constructor'
ForgedIds == { << 122, 122 >>, << 99, 111, 110, 115, 116, 114, 117, 99, 116, 111, 114 >> }

Forge ==
    /\ net = {}
    /\ \A c \in Ctx : minted[c] = << >>
    /\ \E w \in Ctx, id \in ForgedIds :
           net' = { [src |-> Elsewhere, dst |-> w,
                     _broadcast |-> [type |-> JsString(NameAB),
                                     detail |-> JsObject(Undefined, Undefined, << 120 >>),
                                     eventIds |-> << id >>, debug |-> FALSE,
                                     bid |-> NoBid]] }
    /\ UNCHANGED << parent, originId, recentEvents, now, rnd, held, calls, last,
                    fired, posted, log, minted, lateEcho, blocked, errors, text, hashed >>

NextForged == Forge \/ BroadcastPlain \/ Deliver

SpecForged == Init /\ [][NextForged]_vars

\* payload p carries an event id that window c stored no more than 30
\* seconds ago
Live(c, p) ==
    \E i \in DOMAIN p.eventIds :
        /\ p.eventIds[i] \in DOMAIN recentEvents[c]
        /\ now - recentEvents[c][p.eventIds[i]] <= ExpiryMs

\* payload p carries the name of a member of Object.prototype as event id
Inherited(p) == \E i \in DOMAIN p.eventIds : p.eventIds[i] \in ObjectPrototype

\* in this step window c suppresses: no event fired, no message posted, no
\* event id stored, no Math.random() drawn
Suppresses(c) ==
    /\ fired' = fired
    /\ posted' = posted
    /\ minted' = minted
    /\ rnd' = rnd
    /\ DOMAIN recentEvents'[c] \subseteq DOMAIN recentEvents[c]

\* in this step window c goes on: one event id drawn and stored
GoesOn(c) ==
    /\ rnd'[c] = rnd[c] + 1
    /\ Cardinality(DOMAIN minted'[c]) = Cardinality(DOMAIN minted[c]) + 1
    /\ \E id \in DOMAIN recentEvents'[c] \ DOMAIN minted[c] : recentEvents'[c][id] = now

\* C22 as stated: the run of broadcastEvent on a delivered payload is
\* suppressed if the payload carries an event id that the window stored no
\* more than 30 seconds ago, and goes on if it carries none
C22_SuppressedIffLiveId ==
    [][ \A m \in net :
          (m \notin net' /\ HasPayload(m._broadcast) /\ m.src # m.dst) =>
              IF Live(m.dst, m._broadcast) THEN Suppresses(m.dst) ELSE GoesOn(m.dst) ]_vars

\* what holds instead: the run is suppressed if the payload carries a live
\* event id of the window or the name of a member of Object.prototype
SuppressedIffLiveOrInherited ==
    [][ \A m \in net :
          (m \notin net' /\ HasPayload(m._broadcast) /\ m.src # m.dst) =>
              IF Live(m.dst, m._broadcast) \/ Inherited(m._broadcast)
              THEN Suppresses(m.dst) ELSE GoesOn(m.dst) ]_vars

(***************************************************************************)
(* SpecClock: one broadcast, encrypted or not, while the clock goes from 0 *)
(* to 30000 and to 30001.                                                  *)
(***************************************************************************)
BroadcastClock ==
    /\ calls = 0
    /\ \E c \in Ctx, data \in {"literal", "wide"}, enc \in BOOLEAN :
           Call(c, NameAB, data, Undefined, enc, FALSE)

NextClock == BroadcastClock \/ Deliver \/ Tick(ExpiryMs) \/ Tick(LateMs)

SpecClock == Init /\ [][NextClock]_vars

\* every event id any window ever stored
AllMinted == UNION { DOMAIN minted[d] : d \in Ctx }

\* in this step window c, handed a payload with the event ids carried,
\* stores one event id that no window ever stored, with the time of the
\* clock, and every message posted carries it after the ids carried
MintsOne(c, carried) ==
    \E id \in DOMAIN recentEvents'[c] \ AllMinted :
        /\ DOMAIN minted'[c] = DOMAIN minted[c] \cup {id}
        /\ recentEvents'[c][id] = now
        /\ \A d \in Ctx \ {c} : minted'[d] = minted[d]
        /\ \A p \in posted' \ posted :
               p.src = c /\ p._broadcast.eventIds = Append(carried, id)

\* C23: a call of broadcastEvent by a page script, and the run on a
\* delivered payload that carries no live event id of the window, store
\* exactly one new event id with the current time and post the payload with
\* that id appended to the ids received; the id is stored even when the run
\* fires the event and then throws before it posts anything
C23_MintsOneToken ==
    [][ /\ calls' = calls + 1 =>
              /\ MintsOne(last'.ctx, << >>)
              /\ last'.threw # "" =>
                     (posted' = posted /\ Len(fired'[last'.ctx]) = Len(fired[last'.ctx]) + 1)
        /\ \A m \in net :
              (m \notin net' /\ ~ Live(m.dst, m._broadcast)) =>
                  MintsOne(m.dst, m._broadcast.eventIds) ]_vars

\* the last window of a chain was delivered at 30000 a payload that went
\* two hops: it carries the ids of the top and the middle window, stored at
\* 0, and the last window stored its own at 30000
C23_Witness ==
    /\ parent[NumCtx] = NumCtx - 1
    /\ NumCtx - 1 # 1
    /\ \E m \in posted :
           /\ m.src = NumCtx
           /\ Len(m._broadcast.eventIds) = 3
           /\ m._broadcast.eventIds[1] \in DOMAIN minted[1]
           /\ m._broadcast.eventIds[2] \in DOMAIN minted[NumCtx - 1]
           /\ m._broadcast.eventIds[3] \in DOMAIN recentEvents[NumCtx]
           /\ recentEvents[NumCtx][m._broadcast.eventIds[3]] = ExpiryMs
           /\ minted[1][m._broadcast.eventIds[1]] = 0

\* in this step window c runs alreadyBroadcast: a page script calls
\* broadcastEvent in it, or a payload is delivered to it
Checks(c) ==
    \/ calls' = calls + 1 /\ last'.ctx = c
    \/ \E m \in net : m \notin net' /\ m.dst = c

\* the event ids of window c stored more than 30 seconds ago
Expired(c) ==
    { id \in DOMAIN recentEvents[c] : now - recentEvents[c][id] > ExpiryMs }

\* C24: an event id leaves the store of a window only in a step in which
\* the window runs alreadyBroadcast and only if it was stored more than
\* 30000 ms ago; such a step removes every id stored more than 30000 ms
\* ago, and a payload whose ids of the window have all expired is not
\* suppressed
C24_PurgeOnCheckOnly ==
    [][ \A c \in Ctx :
          /\ DOMAIN recentEvents[c] \ DOMAIN recentEvents'[c] \subseteq Expired(c)
          /\ Checks(c) => Expired(c) \cap DOMAIN recentEvents'[c] = {}
          /\ ~ Checks(c) => recentEvents'[c] = recentEvents[c]
          /\ \A m \in net :
                (/\ m \notin net' /\ m.dst = c
                 /\ \A i \in DOMAIN m._broadcast.eventIds :
                        m._broadcast.eventIds[i] \in DOMAIN recentEvents[c]
                            => m._broadcast.eventIds[i] \in Expired(c))
                => GoesOn(c) ]_vars

\* at 30001 the caller has been delivered an echo: the id it stored at 0 is
\* gone and it fired again, while another window, delivered nothing since,
\* still holds the id it stored at 0
C24_Witness ==
    /\ Returned
    /\ now = LateMs
    /\ \E id \in DOMAIN minted[last.ctx] \ DOMAIN recentEvents[last.ctx] :
           minted[last.ctx][id] = 0
    /\ Fires(last.ctx, 1) = 2
    /\ \E d \in Ctx \ {last.ctx} : \E id \in DOMAIN recentEvents[d] :
           recentEvents[d][id] = 0

\* the times the clock of SpecClock shows
ClockTimes == {0, ExpiryMs, LateMs}

\* the event ids window c can have made so far for the event 'a:b': made of
\* its own sender, a time of the clock and one of its Math.random() draws
MadeBy(c) == { EventId(c, NameAB, t, r) : t \in ClockTimes, r \in 2 .. rnd[c] }

\* C25: every event id in the store of a window was made by that window,
\* none was made by another window, and no event id that a delivered
\* payload carried is in the store unless the window made it
C25_StoreHoldsOwnIdsOnly ==
    \E made \in { [d \in Ctx |-> MadeBy(d)] } :
        \A c \in Ctx :
            /\ DOMAIN recentEvents[c] \subseteq made[c]
            /\ \A d \in Ctx \ {c} : DOMAIN recentEvents[c] \cap made[d] = {}
            /\ \A m \in posted \ net :
                   m.dst = c =>
                       \A i \in DOMAIN m._broadcast.eventIds :
                           m._broadcast.eventIds[i] \in DOMAIN recentEvents[c]
                               => m._broadcast.eventIds[i] \in made[c]

\* the last window of a chain was delivered a payload with the ids of the
\* two windows above it: its store holds one id, its own
C25_Witness ==
    /\ parent[NumCtx] = NumCtx - 1
    /\ NumCtx - 1 # 1
    /\ Cardinality(DOMAIN recentEvents[NumCtx]) = 1
    /\ \E m \in posted \ net :
           /\ m.dst = NumCtx
           /\ Len(m._broadcast.eventIds) = 2
           /\ m._broadcast.eventIds[1] \in DOMAIN recentEvents[1]
           /\ m._broadcast.eventIds[2] \in DOMAIN recentEvents[NumCtx - 1]
           /\ \A i \in 1 .. 2 : m._broadcast.eventIds[i] \notin DOMAIN recentEvents[NumCtx]

\* C26: every payload posted carries at least one event id, the last one
\* stored by the window that posts it; a payload with one id is posted by
\* the window broadcastEvent was called in; a payload with more is posted
\* by a window that was delivered a payload with the same ids but the last.
\* So a payload delivered after k hops carries k ids, one per hop, in order
C26_EventIdsGrowByOne ==
    \A m \in posted :
        \E ids \in { m._broadcast.eventIds } :
            /\ Len(ids) >= 1
            /\ ids[Len(ids)] \in DOMAIN minted[m.src]
            /\ Len(ids) = 1 => m.src = last.ctx
            /\ Len(ids) > 1 =>
                   \E m0 \in posted \ net :
                       /\ m0.dst = m.src
                       /\ m0._broadcast.eventIds = SubSeq(ids, 1, Len(ids) - 1)

\* a call in the last window of a chain: the top window, two hops away, was
\* delivered the ids of the last and of the middle window, in that order,
\* and posts them with its own id in third place
C26_Witness ==
    /\ parent[NumCtx] = NumCtx - 1
    /\ NumCtx - 1 # 1
    /\ Returned /\ last.ctx = NumCtx
    /\ \E m \in posted :
           /\ m.src = 1
           /\ Len(m._broadcast.eventIds) = 3
           /\ m._broadcast.eventIds[1] \in DOMAIN minted[NumCtx]
           /\ m._broadcast.eventIds[2] \in DOMAIN minted[NumCtx - 1]
           /\ m._broadcast.eventIds[3] \in DOMAIN minted[1]

\* the number of lines x among the console lines window c writes in this step
Written(c, x) ==
    Cardinality({ i \in DOMAIN log'[c] : i > Len(log[c]) /\ log'[c][i] = x })

\* in this step window c posts one payload, once to its parent if it has
\* one and once to each of its frames, and nothing else is posted; with
\* debug on it writes one line per postMessage
SendsToNeighbours(c) ==
    \E new \in { posted' \ posted } :
        /\ \A m \in new : m.src = c
        /\ { m.dst : m \in new } = Neighbours(c)
        /\ Cardinality(new) = Cardinality(Neighbours(c))
        /\ Cardinality({ m._broadcast : m \in new }) = 1
        /\ new \subseteq net'
        /\ \A m \in new :
               m._broadcast.debug =>
                   /\ Written(c, "up") = (IF parent[c] # NoParent THEN 1 ELSE 0)
                   /\ Written(c, "down") = Cardinality(frames(c))

\* C27: a call of broadcastEvent that returns, and the run on a delivered
\* payload that carries no live event id of the window, post the payload
\* once to the parent and once to each frame, the window the payload came
\* from included, and to no other window
C27_SendsOnceToEachNeighbour ==
    [][ /\ (calls' = calls + 1 /\ last'.threw = "") => SendsToNeighbours(last'.ctx)
        /\ \A m \in net :
              (m \notin net' /\ ~ Live(m.dst, m._broadcast)) =>
                  (SendsToNeighbours(m.dst) /\ m.src \in { p.dst : p \in posted' \ posted })
      ]_vars

\* the middle window of a chain was delivered the payload of the top window
\* and posted it back up and on down, one console line each
C27_Witness ==
    /\ parent[NumCtx] = NumCtx - 1
    /\ NumCtx - 1 # 1
    /\ Returned /\ last.ctx = 1 /\ last.debug
    /\ log[NumCtx - 1] = << "received", "up", "down" >>
    /\ \E m \in posted : m.src = NumCtx - 1 /\ m.dst = 1
                         /\ Len(m._broadcast.eventIds) = 2
    /\ \E m \in posted : m.src = NumCtx - 1 /\ m.dst = NumCtx
                         /\ Len(m._broadcast.eventIds) = 2

(***************************************************************************)
(* SpecTrace: one broadcast to everyone with debug on, in any tree; the    *)
(* clock may pass 30 seconds.                                              *)
(***************************************************************************)
BroadcastDebug ==
    /\ calls = 0
    /\ \E c \in Ctx : Call(c, NameAB, "undefined", Undefined, FALSE, TRUE)

NextTrace == BroadcastDebug \/ Deliver \/ Tick(LateMs)

SpecTrace == Init /\ [][NextTrace]_vars

\* the payloads delivered to window c
Delivered(c) == { m \in posted \ net : m.dst = c }

\* the number of console lines x of window c
Lines(c, x) == Cardinality({ i \in DOMAIN log[c] : log[c][i] = x })

\* the tree is the chain 1 -> 2 -> ... and broadcastEvent was called in the
\* top window
ChainFromRoot ==
    /\ \A c \in Ctx \ {1} : parent[c] = c - 1
    /\ Returned /\ last.ctx = 1

\* the window broadcastEvent was called in has suppressed every payload
\* delivered to it; every other window has run the first payload delivered
\* to it and suppressed every later one
SuppressesAllButFirst ==
    Returned =>
        \A c \in Ctx :
            /\ Lines(c, "received") = Cardinality(Delivered(c))
            /\ Lines(c, "suppressed") =
                   (IF c = last.ctx \/ Delivered(c) = {} THEN Cardinality(Delivered(c))
                    ELSE Cardinality(Delivered(c)) - 1)
            /\ (c = last.ctx \/ Delivered(c) # {}) => Fires(c, 1) = 1

\* in the chain of three, once nothing is in flight: 4 messages posted and
\* delivered, 2 of them suppressed, and the console of each window in order
ChainOfThreeCounts ==
    (ChainFromRoot /\ Cardinality(Ctx) = 3 /\ net = {}) =>
        /\ Cardinality(posted) = 4
        /\ { << m.src, m.dst >> : m \in posted } = { << 1, 2 >>, << 2, 1 >>, << 2, 3 >>, << 3, 2 >> }
        /\ log[1] = << "down", "received", "suppressed" >>
        /\ log[2] = << "received", "up", "down", "received", "suppressed" >>
        /\ log[3] = << "received", "up" >>

\* C29 as stated: whenever the payloads are delivered
C29_ChainCounts == SuppressesAllButFirst /\ ChainOfThreeCounts

\* C29: as long as no window has received a payload carrying an event id it
\* stored more than 30 seconds earlier
C29_ChainCountsWhenTimely == lateEcho = {} => (SuppressesAllButFirst /\ ChainOfThreeCounts)

\* the broadcast of the top window of the chain of three has come to rest
\* within 30 seconds: 4 messages, 2 suppressed echoes
C29_Witness ==
    /\ ChainFromRoot /\ Cardinality(Ctx) = 3
    /\ net = {} /\ lateEcho = {}
    /\ Cardinality(posted) = 4
    /\ Lines(1, "suppressed") + Lines(2, "suppressed") + Lines(3, "suppressed") = 2

\* C30: a call with encrypt fires the event in the calling window, when it
\* is fired there, with the event data object itself, and every message
\* the calling window posts carries the 'BE:' string instead; when the
\* encryption throws, the event has been fired and nothing is posted
C30_PlainFiredThenCipherPosted ==
    (calls = 1 /\ last.encrypt) =>
        /\ FiresLocally(last.ctx, Created) =>
               /\ Fires(last.ctx, 1) = 1
               /\ fired[last.ctx][1].detail = Created
        /\ \A m \in posted : m.src = last.ctx => Encrypted(m._broadcast.detail)
        /\ last.threw # "" => posted = {}

\* the top window called with encrypt and data that btoa takes: it fired the
\* object and posted the string
C30_Witness ==
    /\ Returned /\ last.encrypt /\ last.ctx = 1
    /\ fired[1] # << >>
    /\ fired[1][1].detail.t = "object"
    /\ fired[1][1].detail.v = << 120 >>
    /\ \E m \in posted : m.src = 1 /\ m._broadcast.detail.t = "string"

\* the payloads window c has posted
Relays(c) == { m._broadcast : m \in { p \in posted : p.src = c } }

\* C31: as long as no window has been delivered a payload carrying an event
\* id it stored more than 30000 ms earlier, every window has fired the
\* event at most once and has posted at most one payload, once to each
\* window next to it
C31_OnceWithinExpiry ==
    lateEcho = {} =>
        \A c \in Ctx :
            /\ Fires(c, 1) <= 1
            /\ Cardinality(Relays(c)) <= 1
            /\ Cardinality({ p \in posted : p.src = c }) <= Cardinality(Neighbours(c))

\* the caller was delivered an echo exactly 30000 ms after it stored its
\* event id: the window that sent the echo stored its own at 30000, and the
\* caller has fired once and posted one payload
C31_Witness ==
    /\ Returned
    /\ now = ExpiryMs
    /\ lateEcho = {}
    /\ \E id \in DOMAIN recentEvents[last.ctx] : recentEvents[last.ctx][id] = 0
    /\ \E m \in posted \ net :
           /\ m.dst = last.ctx
           /\ \E id \in DOMAIN recentEvents[m.src] : recentEvents[m.src][id] = ExpiryMs
    /\ Fires(last.ctx, 1) = 1
    /\ Cardinality(Relays(last.ctx)) = 1

(***************************************************************************)
(* SpecRepeat: page scripts call broadcastEvent MaxCalls times, in the same *)
(* window or in different ones, with the same event name and an equal      *)
(* object literal, while payloads of the earlier call may still be in      *)
(* flight; the clock may pass 30 seconds.                                  *)
(***************************************************************************)
MaxCalls == 2

Repeat ==
    /\ calls < MaxCalls
    /\ \E c \in Ctx : Call(c, NameAB, "literal", Undefined, FALSE, FALSE)

\* the clock passes 30 seconds while at most one payload is in flight
TickQuiet == Cardinality(net) <= 1 /\ Tick(LateMs)

NextRepeat == Repeat \/ Deliver \/ TickQuiet

SpecRepeat == Init /\ [][NextRepeat]_vars

\* C32: every call of broadcastEvent by a page script, whatever the store
\* of the window holds, stores a new event id, fires the event in the
\* window and posts the payload to the parent and to every frame
C32_CallNeverSuppressed ==
    [][ calls' = calls + 1 =>
          /\ last'.threw = ""
          /\ GoesOn(last'.ctx)
          /\ Len(fired'[last'.ctx]) = Len(fired[last'.ctx]) + 1
          /\ fired'[last'.ctx][Len(fired'[last'.ctx])].bid = calls'
          /\ SendsToNeighbours(last'.ctx) ]_vars

\* the same window called twice at the same time of the clock: its store
\* holds two event ids, and it fired both
C32_Witness ==
    /\ calls = 2 /\ now = 0
    /\ Cardinality(DOMAIN recentEvents[last.ctx]) = 2
    /\ Fires(last.ctx, 1) = 1 /\ Fires(last.ctx, 2) = 1
    /\ fired[last.ctx][1].detail = fired[last.ctx][2].detail
    /\ fired[last.ctx][1].type = fired[last.ctx][2].type

\* the event ids carried by the payloads of broadcast b
IdsOf(b) ==
    UNION { { m._broadcast.eventIds[i] : i \in DOMAIN m._broadcast.eventIds } :
            m \in Posted(b) }

\* no payload of one broadcast carries an event id of another, no window
\* has fired a broadcast twice, and every window has fired a broadcast of
\* which no payload is in flight
EachFiredOnce ==
    \A b \in 1 .. calls :
        /\ \A b2 \in 1 .. calls : b2 # b => IdsOf(b) \cap IdsOf(b2) = {}
        /\ \A c \in Ctx : Fires(c, b) <= 1
        /\ (\A m \in net : m._broadcast.bid # b) => \A c \in Ctx : Fires(c, b) = 1

\* C33 as stated: whatever the interleaving and the timing of the deliveries
C33_NoInterference == EachFiredOnce

\* C33: as long as no window has been delivered a payload carrying an event
\* id it stored more than 30 seconds earlier
C33_NoInterferenceWhenTimely == lateEcho = {} => EachFiredOnce

\* two broadcasts called in different windows have come to rest within 30
\* seconds: every window fired each of them once
C33_Witness ==
    /\ calls = 2 /\ net = {} /\ lateEcho = {}
    /\ last.ctx \notin Originator(1)
    /\ \A c \in Ctx : Fires(c, 1) = 1 /\ Fires(c, 2) = 1
    /\ \A c \in Ctx : Cardinality(DOMAIN recentEvents[c]) = 2

(***************************************************************************)
(* SpecLossy: one broadcast over a transport that may drop any message, in *)
(* a page where the postMessage of one window may throw; the clock may     *)
(* pass 30 seconds.                                                        *)
(***************************************************************************)
\* the transport drops message m
Lose ==
    /\ \E m \in net : net' = net \ {m}
    /\ UNCHANGED << parent, originId, recentEvents, now, rnd, held, calls, last,
                    fired, posted, log, minted, lateEcho, blocked, errors, text, hashed >>

NextLossy == BroadcastPlain \/ Deliver \/ Lose \/ BlockOne \/ TickQuiet

SpecLossy == Init /\ [][NextLossy]_vars

\* no window has fired the broadcast twice, at most two messages per edge
\* of the tree were posted, and a window other than the caller has fired
\* only if a message was posted to it
FiresOnceSendsBounded ==
    /\ \A c \in Ctx : Fires(c, 1) <= 1
    /\ Cardinality(Posted(1)) <= 2 * Edges
    /\ \A c \in Ctx : (Fires(c, 1) >= 1 /\ c # last.ctx) => \E m \in posted : m.dst = c

\* C34 as stated: whatever is lost and whenever the rest is delivered
C34_LossOnlyReduces == FiresOnceSendsBounded

\* C34: as long as no window has been delivered a payload carrying an event
\* id it stored more than 30 seconds earlier
C34_LossOnlyReducesWhenTimely == lateEcho = {} => FiresOnceSendsBounded

\* in a chain the payload of the top window reached the middle window and
\* the payload posted on to the last window was lost: nothing is in flight
\* and the last window has not fired
C34_Witness ==
    /\ parent[NumCtx] = NumCtx - 1
    /\ NumCtx - 1 # 1
    /\ Returned /\ last.ctx = 1
    /\ net = {} /\ lateEcho = {} /\ blocked = {}
    /\ Fires(NumCtx - 1, 1) = 1
    /\ Fires(NumCtx, 1) = 0
    /\ \E m \in posted : m.src = NumCtx - 1 /\ m.dst = NumCtx

\* C35: a call of broadcastEvent that throws has fired no event, stored no
\* event id and posted no message
C35_ThrowHasNoEffect ==
    (calls = 1 /\ last.threw # "") =>
        /\ \A c \in Ctx : fired[c] = << >>
        /\ \A c \in Ctx : recentEvents[c] = << >> /\ minted[c] = << >>
        /\ posted = {}

\* what holds instead when btoa throws: the event is fired where the target
\* lets it fire, one event id is stored, and no message is posted
ThrowAfterFiring ==
    (calls = 1 /\ last.threw # "") =>
        /\ Fires(last.ctx, 1) = (IF FiresLocally(last.ctx, Created) THEN 1 ELSE 0)
        /\ Cardinality(DOMAIN recentEvents[last.ctx]) = 1
        /\ posted = {}

ThrowAfterFiring_Witness ==
    /\ calls = 1
    /\ last.threw = "InvalidCharacterError"
    /\ Fires(last.ctx, 1) = 1

(***************************************************************************)
(* SpecTamper: an encrypted broadcast for one window; a message of it      *)
(* reaches its window with a detail that cannot be decrypted.              *)
(***************************************************************************)
BroadcastSecret ==
    /\ calls = 0
    /\ \E c \in Ctx, target \in TargetIds :
           Call(c, NameAB, "literal", target, TRUE, FALSE)

\* the detail of a message on its way becomes 'BE:!:k' or 'BE:YQ==:k'
Tamper ==
    \E m \in net, bad \in { << 66, 69, 58, 33, 58, 107 >>,
                            << 66, 69, 58, 89, 81, 61, 61, 58, 107 >> } :
        /\ m \in posted
        /\ m._broadcast.detail.t = "string"
        /\ net' = (net \ {m}) \cup { [m EXCEPT !._broadcast.detail = JsString(bad)] }
        /\ UNCHANGED << parent, originId, recentEvents, now, rnd, held, calls, last,
                        fired, posted, log, minted, lateEcho, blocked, errors, text, hashed >>

NextTamper == BroadcastSecret \/ Tamper \/ Deliver

SpecTamper == Init /\ [][NextTamper]_vars

\* C36: the event of a broadcast with a target is fired in no window but
\* the target, also when a window on the way could not decrypt the detail
C36_TargetedStaysTargeted ==
    \A c \in Ctx : fired[c] # << >> => originId[c] = last.target

\* what holds instead: a window that could not decrypt fires the event with
\* no _targetId, whatever the target of the call was
FiresWhereDecryptFailed ==
    \A c \in Ctx :
        (FailedToDecrypt(c) /\ Cardinality(DOMAIN recentEvents[c]) = 1) =>
            /\ Len(fired[c]) >= 1
            /\ \A i \in DOMAIN fired[c] :
                   originId[c] # last.target =>
                       fired[c][i].detail = JsObject(originId[c], Undefined, Undefined)

FiresWhereDecryptFailed_Witness ==
    \E c \in Ctx :
        /\ FailedToDecrypt(c)
        /\ last.target \in { originId[d] : d \in Ctx \ {c} }
        /\ Len(fired[c]) = 1

\* in SpecTamper the event is fired outside the target only once some
\* window could not decrypt
UntargetedOnlyAfterFailure ==
    C36_TargetedStaysTargeted \/ \E c \in Ctx : FailedToDecrypt(c)

(***************************************************************************)
(* SpecPosted: a script that is not broadcastEvent posts to one window a   *)
(* message with a _broadcast of its own making.                            *)
(***************************************************************************)
\* the details such a script sends: 5, 0, null, 'hi', 'BE:!:k', { v: 'x' }
PostedDetails ==
    { JsNumber(5), JsNumber(0), JsNull, JsString(<< 104, 105 >>),
      JsString(<< 66, 69, 58, 33, 58, 107 >>), Literal(<< 120 >>) }

Post ==
    /\ posted = {}
    /\ \E w \in Ctx, type \in { JsString(NameAB), JsNumber(5) },
          detail \in PostedDetails, dbg \in BOOLEAN :
           \E m \in { [src |-> Elsewhere, dst |-> w,
                       _broadcast |-> [type |-> type, detail |-> detail,
                                       eventIds |-> << >>, debug |-> dbg,
                                       bid |-> 1]] } :
               /\ net' = {m}
               /\ posted' = {m}
    /\ UNCHANGED << parent, originId, recentEvents, now, rnd, held, calls, last,
                    fired, log, minted, lateEcho, blocked, errors, text, hashed >>

NextPosted == Post \/ Deliver

SpecPosted == Init /\ [][NextPosted]_vars

\* C37: no error is thrown out of the message listener, whatever the
\* message
C37_ListenerNeverThrows == \A c \in Ctx : errors[c] = << >>

\* what holds instead: the listener throws 'eventData must be an object'
\* on a payload with a string type whose detail is a non-zero number or a
\* non-empty string that does not start with 'BE:', and then has fired,
\* stored and posted nothing
ListenerThrowsOnScalarDetail ==
    \A c \in Ctx :
        LET scalar == { m \in Delivered(c) :
                          /\ m._broadcast.type.t = "string"
                          /\ \/ m._broadcast.detail = JsNumber(5)
                             \/ m._broadcast.detail = JsString(<< 104, 105 >>) }
        IN  /\ Len(errors[c]) = Cardinality(scalar)
            /\ \A i \in DOMAIN errors[c] : errors[c][i] = "eventData must be an object"
            /\ errors[c] # << >> =>
                   /\ fired[c] = << >>
                   /\ recentEvents[c] = << >>
                   /\ \A m \in posted : m.src # c

ListenerThrowsOnScalarDetail_Witness ==
    \E c \in Ctx :
        /\ errors[c] = << "eventData must be an object" >>
        /\ \E m \in Delivered(c) : m._broadcast.detail = JsString(<< 104, 105 >>)

\* window c and the windows above it, up to window.top
RECURSIVE Ancestors(_)
Ancestors(c) ==
    IF parent[c] = NoParent THEN {c} ELSE {c} \cup Ancestors(parent[c])

\* the windows on the way from window a to window b through parents and
\* frames, both included
Path(a, b) ==
    LET common == Ancestors(a) \cap Ancestors(b)
    IN  { w \in Ancestors(a) \cup Ancestors(b) :
            w \notin common \/ Ancestors(w) = common }

\* C38: a window that has posted a message of the broadcast has fired its
\* event, and at the step where a window fires the event of a broadcast to
\* everyone, every other window on the way between it and the window of
\* the call has fired it before
C38_FiresBeforeSending ==
    [][ /\ \A m \in posted' : m._broadcast.bid = 1 => Fires(m.src, 1)' >= 1
        /\ \A c \in Ctx :
               (calls = 1 /\ Fires(c, 1)' > Fires(c, 1)) =>
                   \A w \in Path(c, last.ctx) \ {c} : Fires(w, 1) >= 1 ]_vars

\* frames 2 and 3 of one top window: the broadcast called in frame 2 has
\* been fired in frame 3, which it reached through the top window
C38_Witness ==
    /\ parent = << NoParent, 1, 1 >>
    /\ last.ctx = 2
    /\ Path(3, 2) = {1, 2, 3}
    /\ Fires(3, 1) = 1
    /\ \E m \in Posted(1) : m.src = 3

\* the messages the window of the call posted in the call itself
FirstHop == { m \in Posted(1) : m.src = last.ctx /\ Len(m._broadcast.eventIds) = 1 }

\* C39: the payload a call of broadcastEvent posts carries as _targetId the
\* options.target of that call and as _originId the originId of the
\* calling window, also when the event data object was passed to an
\* earlier call with another target
C39_TargetAndOriginFromCall ==
    \A m \in FirstHop :
        /\ m._broadcast.detail._targetId = last.target
        /\ m._broadcast.detail._originId = originId[last.ctx]

\* what holds instead: the _originId is that of the calling window, and
\* the _targetId is options.target unless the event data object came with
\* a _targetId, which then stays
TargetFromDataFirst ==
    \A m \in FirstHop :
        /\ m._broadcast.detail._originId = originId[last.ctx]
        /\ m._broadcast.detail._targetId =
               (IF last.data = "reused" THEN originId[1] ELSE last.target)

TargetFromDataFirst_Witness ==
    \E m \in FirstHop :
        /\ last.data = "reused"
        /\ last.target = originId[NumCtx]
        /\ m._broadcast.detail._targetId = originId[1]

(***************************************************************************)
(* SpecHash: stringHash called MaxCalls times on any string of at most     *)
(* MaxLen code units drawn from HashUnits.                                 *)
(***************************************************************************)
MaxLen == 3

\* the code units NUL, ':', 'a', 'z', U+00FF, the euro sign and U+FFFF
HashUnits == { 0, 58, 97, 122, 255, 8364, 65535 }

HashInputs == UNION { [1 .. n -> HashUnits] : n \in 0 .. MaxLen }

InitHashed ==
    /\ parent \in Trees(1)
    /\ originId = [c \in Windows(1) |-> stringHash(OriginInput(c, 0, 1))]
    /\ rnd = [c \in Windows(1) |-> 1]
    /\ recentEvents = [c \in Windows(1) |-> << >>]
    /\ now = 0
    /\ net = {}
    /\ held = [c \in Windows(1) |-> Literal(<< 120 >>)]
    /\ calls = 0
    /\ last = NoCall
    /\ fired = [c \in Windows(1) |-> << >>]
    /\ posted = {}
    /\ log = [c \in Windows(1) |-> << >>]
    /\ minted = [c \in Windows(1) |-> << >>]
    /\ lateEcho = {}
    /\ blocked = {}
    /\ errors = [c \in Windows(1) |-> << >>]
    /\ text \in HashInputs
    /\ hashed = << >>

Hash ==
    /\ Len(hashed) < MaxCalls
    /\ hashed' = Append(hashed, stringHash(text))
    /\ UNCHANGED << parent, originId, recentEvents, now, rnd, net, held, calls, last,
                    fired, posted, log, minted, lateEcho, blocked, errors, text >>

NextHash == Hash

SpecHash == InitHashed /\ [][NextHash]_vars

\* h * 16777619 modulo 2^32 on halves: 16777619 = 256 * 2^16 + 403
TimesFnvPrime(h) ==
    LET low == h[2] * 403
    IN  << (h[1] * 403 + h[2] * 256 + (low \div Half)) % Half, low % Half >>

\* 32-bit FNV-1a of the code units of s from the i-th on, from hash h
RECURSIVE Fnv1aFrom(_, _, _)
Fnv1aFrom(s, i, h) ==
    IF i > Len(s) THEN h
    ELSE CHOOSE out \in { Fnv1aFrom(s, i + 1, g) :
                            g \in { TimesFnvPrime(x) : x \in { Xor32(h, s[i]) } } } : TRUE

\* 2166136261 = 33052 * 2^16 + 40389
Fnv1a(s) == Fnv1aFrom(s, 1, << 33052, 40389 >>)

\* the value of a base-36 digit, 36 for any other code unit
Value36(d) ==
    IF d \in 48 .. 57 THEN d - 48
    ELSE IF d \in 97 .. 122 THEN d - 87
    ELSE 36

\* the number that the first k digits of the base-36 numeral s denote, on
\* halves; the high half is Half or more once the number is 2^32 or more
RECURSIVE Parse36(_, _)
Parse36(s, k) ==
    IF k = 0 THEN << 0, 0 >>
    ELSE CHOOSE out \in
           { IF n[1] >= Half THEN << Half, 0 >>
             ELSE << n[1] * 36 + ((n[2] * 36 + Value36(s[k])) \div Half),
                     (n[2] * 36 + Value36(s[k])) % Half >> :
             n \in { Parse36(s, k - 1) } } : TRUE

\* s is the numeral of Number.prototype.toString(36) of some natural number
IsNumeral36(s) ==
    /\ Len(s) >= 1
    /\ \A i \in DOMAIN s : Value36(s[i]) < 36
    /\ Len(s) > 1 => s[1] # 48

\* C40: every call stringHash(text) returns the same string, which is the
\* base-36 numeral of a number below 2^32, and that number is the 32-bit
\* FNV-1a hash of the code units of the input
C40_StringHashIsFnv1a ==
    \A i \in DOMAIN hashed :
        /\ hashed[i] = hashed[1]
        /\ IsNumeral36(hashed[i])
        /\ \E n \in { Parse36(hashed[i], Len(hashed[i])) } :
               /\ n[1] < Half
               /\ n = Fnv1a(text)

\* stringHash was called twice on 'a', the euro sign, U+FFFF
C40_Witness ==
    /\ text = << 97, 8364, 65535 >>
    /\ Len(hashed) = MaxCalls
    /\ Len(hashed[1]) >= 6

====
